---- MODULE Spec2Model ----
(***************************************************************************)
(* Model of the feedback widget's screenshot session: the feedback modal's *)
(* media state (modal.tsx), the Screenshotter phase coordinator and its    *)
(* CropOverlay (screenshotter.tsx) and the AnnotationCanvas                *)
(* (annotator.tsx).                                                        *)
(*                                                                         *)
(* Every action is one event handler (or one asynchronous callback)        *)
(* together with the React re-render and the effects that follow it.       *)
(* A component that is not mounted holds the initial values of its state.  *)
(***************************************************************************)
EXTENDS Integers, Sequences, FiniteSets, TLC

----------------------------------------------------------------------------
(* Bounds of the model *)

\* committed annotations per session
MaxLog == 2
\* points of a polyline in progress
MaxPoints == 4
\* crop-image loads in flight at once
MaxLoads == 1
\* largest coordinate of the pure-function domains
MaxCoord == 3

(* Values *)

\* JavaScript null / undefined
Null == [null |-> TRUE]

Pt(px, py) == [x |-> px, y |-> py]

\* the empty string held by a data-URL state
EmptyUrl == [kind |-> "empty"]

\* window.innerWidth x window.innerHeight and the capture's natural size
Viewport == [w |-> 22, h |-> 22]
Native == [w |-> 33, h |-> 44]

\* the PNG captureFullScreen resolves with
FullScreenUrl == [kind |-> "capture", w |-> Native.w, h |-> Native.h]

\* a canvas nothing was drawn on
BlankCanvas == [img |-> Null, marks |-> <<>>]

\* canvas.toDataURL("image/png")
toDataURL(cv) == [kind |-> "png", img |-> cv.img, marks |-> cv.marks]

Min(a, b) == IF a < b THEN a ELSE b
Abs(a) == IF a < 0 THEN -a ELSE a

RECURSIVE trimStart(_)
trimStart(s) ==
  IF s # <<>> /\ Head(s) = " " THEN trimStart(Tail(s)) ELSE s

RECURSIVE trimEnd(_)
trimEnd(s) ==
  IF s # <<>> /\ s[Len(s)] = " " THEN trimEnd(SubSeq(s, 1, Len(s) - 1)) ELSE s

\* a trim that strips leading white space only
trimLeadingOnly(s) == trimStart(s)

\* String.prototype.trim
trim(s) == trimEnd(trimStart(s))

\* a slice that drops the first element instead of the last
sliceFirst(s) == IF s = <<>> THEN <<>> ELSE Tail(s)

\* Array.prototype.slice(0, -1)
sliceLast(s) == IF s = <<>> THEN <<>> ELSE SubSeq(s, 1, Len(s) - 1)

(* Input domains: what the user does in one run of the widget.             *)
(*   tools, colors  the toolbar buttons pressed                            *)
(*   drawTools      the tools the pointer is pressed with                  *)
(*   downs, moves   canvas positions (getPos) of pointer-down / -move      *)
(*   texts          values typed into the text input, as character lists   *)
(*   cropXs, cropYs overlay positions (getXY) of the crop pointer events   *)
(*   lateLoad       whether user events may precede the base image's load  *)
(*   decodes        whether the browser can decode the captured bitmap      *)

DrawShapes ==
  [name |-> "shapes", tools |-> {"rect", "arrow"},
   drawTools |-> {"rect", "arrow"}, colors |-> {"#ef4444", "#3b82f6"},
   downs |-> {Pt(10, 10)}, moves |-> {Pt(10, 10), Pt(110, 60)}, texts |-> {},
   cropXs |-> {0, 11}, cropYs |-> {0, 11}, lateLoad |-> FALSE,
   decodes |-> TRUE]

DrawFreehand ==
  [name |-> "freehand", tools |-> {"freehand", "rect"},
   drawTools |-> {"freehand"}, colors |-> {"#ef4444"},
   downs |-> {Pt(0, 0)}, moves |-> {Pt(5, 5), Pt(5, 10)}, texts |-> {},
   cropXs |-> {0, 11}, cropYs |-> {0, 11}, lateLoad |-> FALSE,
   decodes |-> TRUE]

WriteText ==
  [name |-> "text", tools |-> {"text"},
   drawTools |-> {"text"}, colors |-> {"#ef4444", "#3b82f6"},
   downs |-> {Pt(50, 50), Pt(0, 0)}, moves |-> {},
   texts |-> {<<>>, <<" ">>, <<"a">>, <<" ", "a", " ", "b", " ">>},
   cropXs |-> {0, 11}, cropYs |-> {0, 11}, lateLoad |-> FALSE,
   decodes |-> TRUE]

WholeSession ==
  [name |-> "session", tools |-> {"rect", "text"},
   drawTools |-> {"rect", "text"}, colors |-> {"#ef4444"},
   downs |-> {Pt(0, 0)}, moves |-> {Pt(5, 5)}, texts |-> {<<"a">>},
   cropXs |-> {0, 10, 11}, cropYs |-> {0, 10, 11}, lateLoad |-> TRUE,
   decodes |-> TRUE]

BadCapture ==
  [name |-> "undecodable", tools |-> {"rect"},
   drawTools |-> {"rect"}, colors |-> {"#ef4444"},
   downs |-> {Pt(0, 0)}, moves |-> {Pt(5, 5)}, texts |-> {},
   cropXs |-> {0, 11}, cropYs |-> {0, 11}, lateLoad |-> FALSE,
   decodes |-> FALSE]

Scenarios == {DrawShapes, DrawFreehand, WriteText, WholeSession, BadCapture}

----------------------------------------------------------------------------
(* State *)

VARIABLES
  \* FeedbackModal (modal.tsx)
  modalState, mediaType, mediaDataUrl, fullScreenDataUrl, capturePending,
  \* Screenshotter (screenshotter.tsx)
  phase, cropRect, croppedDataUrl, cropLoads,
  \* CropOverlay (screenshotter.tsx)
  drag, rect, confirmed,
  \* AnnotationCanvas (annotator.tsx)
  annotations, tool, color, drawing, current, pendingText, textInput,
  imgRef, imgLoads, canvas,
  \* FeedbackModal's form (modal.tsx): the fields, the recorder started by
  \* startRecording, the file reads and submissions in flight, and the last
  \* payload handed to submitFeedback
  title, description, attachmentName, errorMessage, recordingHandle,
  recorder, fileReads, inFlight, payload,
  \* the SDK singleton (state.ts), the React roots of sdk.ts and the host
  \* divs in document.body
  state, launcherReactRoot, modalReactRoot, body,
  \* the number of modals opened so far (the modal mounted now is the one
  \* opened last) and, for every pending setTimeout(onClose, 200), the number
  \* of the modal that scheduled it and that modal's state then, oldest first
  opened, closeTimers,
  \* the inline style.visibility of the SDK's host divs by id (for an id
  \* without a div, that of a div just created), the elements saved by the
  \* running captureFullScreen and by the running startRecording, and the
  \* stream captureFullScreen obtained: the readyState of each of its tracks
  style, savedSdk, stream, recordingSaved,
  \* the user's input domains, fixed for a run
  inputs,
  \* observation: the last handler that ran with the position it was given,
  \* and the onDone / onCancel calls of the session
  ev, outcomes,
  \* the last application of a pure function
  call

modalVars == <<modalState, mediaType, mediaDataUrl, fullScreenDataUrl,
               capturePending>>
shotVars == <<phase, cropRect, croppedDataUrl, cropLoads>>
cropVars == <<drag, rect, confirmed>>
annVars == <<annotations, tool, color, drawing, current, pendingText,
             textInput, imgRef, imgLoads, canvas>>
sdkVars == <<state, launcherReactRoot, modalReactRoot, body, opened,
             closeTimers>>
formVars == <<title, description, attachmentName, errorMessage,
              recordingHandle, recorder, fileReads, inFlight, payload>>
captureVars == <<style, savedSdk, stream, recordingSaved>>
sessionVars == <<modalVars, shotVars, cropVars, annVars, formVars,
                 captureVars>>
vars == <<modalVars, shotVars, cropVars, annVars, formVars, sdkVars,
          captureVars, inputs, ev, outcomes, call>>

NoCall == [fn |-> "none"]

Event(name, pos) == [name |-> name, pos |-> pos]

----------------------------------------------------------------------------
(* AnnotationCanvas: rendering *)

\* the canvas calls the model tells apart
ClearRect == [op |-> "clearRect"]
DrawImage(img) == [op |-> "drawImage", img |-> img]
Stroke(ann) == [op |-> "draw", ann |-> ann]

\* a drawAnnotation without the early breaks
drawAnnotationUnchecked(ann) == <<Stroke(ann)>>

\* drawAnnotation: the calls that leave the annotation's mark, none when the
\* annotation lacks the data its tool needs (each case breaks out early)
drawAnnotation(ann) ==
  IF ann.tool \in {"rect", "arrow", "freehand"}
  THEN IF Len(ann.points) < 2 THEN <<>> ELSE <<Stroke(ann)>>
  ELSE IF ann.text = <<>> \/ Len(ann.points) < 1 THEN <<>> ELSE <<Stroke(ann)>>

RECURSIVE drawAll(_)
drawAll(anns) ==
  IF anns = <<>> THEN <<>>
  ELSE drawAnnotation(Head(anns)) \o drawAll(Tail(anns))

\* a redraw that paints the annotations over whatever the canvas holds
redrawOpsOverlay(img, anns, cur) ==
  drawAll(anns) \o (IF cur = Null THEN <<>> ELSE drawAnnotation(cur))

\* a redraw that paints the annotation in progress below the committed ones
redrawOpsCurrentFirst(img, anns, cur) ==
  <<ClearRect, DrawImage(img)>>
    \o (IF cur = Null THEN <<>> ELSE drawAnnotation(cur)) \o drawAll(anns)

\* the canvas calls of redraw, in the order it makes them
redrawOps(img, anns, cur) ==
  <<ClearRect, DrawImage(img)>>
    \o drawAll(anns) \o (IF cur = Null THEN <<>> ELSE drawAnnotation(cur))

\* the surface after one canvas call: clearRect empties it, drawImage of the
\* opaque base over the whole canvas covers what was there, a mark goes on top
paintOne(cv, o) ==
  CASE o.op = "clearRect" -> BlankCanvas
    [] o.op = "drawImage" -> [img |-> o.img, marks |-> <<>>]
    [] o.op = "draw" -> [cv EXCEPT !.marks = Append(@, o.ann)]

RECURSIVE paint(_, _)
paint(cv, ops) ==
  IF ops = <<>> THEN cv ELSE paint(paintOne(cv, Head(ops)), Tail(ops))

\* redraw: clear, base image, committed annotations in order, then current
redraw(cv, img, anns, cur) == paint(cv, redrawOps(img, anns, cur))

\* the re-render effect on [annotations, current]: skipped until the image loaded
RedrawEffect(anns, cur) ==
  IF imgRef = Null THEN canvas ELSE redraw(canvas, imgRef, anns, cur)

----------------------------------------------------------------------------
(* AnnotationCanvas: handlers *)

screenshotterOpen == fullScreenDataUrl # EmptyUrl

Annotating == screenshotterOpen /\ phase = "annotate"

AnnFrame ==
  UNCHANGED <<modalVars, shotVars, cropVars, inputs, sdkVars, captureVars, formVars,
              outcomes, call>>

\* toolbar tool buttons
setTool(t) ==
  /\ Annotating
  /\ tool' = t
  /\ ev' = Event("setTool", Null)
  /\ UNCHANGED <<annotations, color, drawing, current, pendingText, textInput,
                 imgRef, imgLoads, canvas>>
  /\ AnnFrame

\* colour presets and the custom picker
setColor(c) ==
  /\ Annotating
  /\ color' = c
  /\ ev' = Event("setColor", Null)
  /\ UNCHANGED <<annotations, tool, drawing, current, pendingText, textInput,
                 imgRef, imgLoads, canvas>>
  /\ AnnFrame

\* an onMouseDown that seeds the annotation in progress with one point
onMouseDownOnePoint(pos) ==
  /\ Annotating
  /\ IF tool = "text"
     THEN /\ pendingText' = pos
          /\ textInput' = <<>>
          /\ UNCHANGED <<drawing, current, canvas>>
     ELSE /\ drawing' = TRUE
          /\ current' = [tool |-> tool, color |-> color,
                         points |-> <<pos>>, text |-> <<>>]
          /\ canvas' = RedrawEffect(annotations, current')
          /\ UNCHANGED <<pendingText, textInput>>
  /\ ev' = Event("onMouseDown", pos)
  /\ UNCHANGED <<annotations, tool, color, imgRef, imgLoads>>
  /\ AnnFrame

onMouseDown(pos) ==
  /\ Annotating
  /\ IF tool = "text"
     THEN /\ pendingText' = pos
          /\ textInput' = <<>>
          /\ UNCHANGED <<drawing, current, canvas>>
     ELSE /\ drawing' = TRUE
          /\ current' = [tool |-> tool, color |-> color,
                         points |-> <<pos, pos>>, text |-> <<>>]
          /\ canvas' = RedrawEffect(annotations, current')
          /\ UNCHANGED <<pendingText, textInput>>
  /\ ev' = Event("onMouseDown", pos)
  /\ UNCHANGED <<annotations, tool, color, imgRef, imgLoads>>
  /\ AnnFrame

\* a pointer-move that treats every tool as a two-point shape
movedPointsNoAppend(prev, pos) == <<prev.points[1], pos>>

\* a pointer-move that drags the anchor of a shape along
movedPointsMovesAnchor(prev, pos) ==
  IF prev.tool = "freehand"
  THEN Append(prev.points, pos)
  ELSE <<pos, pos>>

\* a pointer-move that goes by the tool selected in the toolbar
movedPointsBySelectedTool(prev, pos) ==
  IF tool = "freehand"
  THEN Append(prev.points, pos)
  ELSE <<prev.points[1], pos>>

\* the points of the in-progress annotation after a pointer-move to pos
movedPoints(prev, pos) ==
  IF prev.tool = "freehand"
  THEN Append(prev.points, pos)
  ELSE <<prev.points[1], pos>>

\* an onMouseMove that also commits the annotation in progress
onMouseMoveCommits(pos) ==
  /\ Annotating
  /\ drawing /\ current # Null
  /\ Len(movedPoints(current, pos)) <= MaxPoints
  /\ Len(annotations) < MaxLog
  /\ current' = [current EXCEPT !.points = movedPoints(current, pos)]
  /\ annotations' = Append(annotations, current')
  /\ canvas' = RedrawEffect(annotations', current')
  /\ ev' = Event("onMouseMove", pos)
  /\ UNCHANGED <<tool, color, drawing, pendingText, textInput, imgRef,
                 imgLoads>>
  /\ AnnFrame

onMouseMove(pos) ==
  /\ Annotating
  /\ drawing /\ current # Null
  /\ Len(movedPoints(current, pos)) <= MaxPoints
  /\ current' = [current EXCEPT !.points = movedPoints(current, pos)]
  /\ canvas' = RedrawEffect(annotations, current')
  /\ ev' = Event("onMouseMove", pos)
  /\ UNCHANGED <<annotations, tool, color, drawing, pendingText, textInput,
                 imgRef, imgLoads>>
  /\ AnnFrame

\* an onMouseUp that is bound to mouseup alone
onMouseUpOnly(name) ==
  /\ Annotating
  /\ IF drawing /\ current # Null /\ name = "onMouseUp"
     THEN /\ Len(annotations) < MaxLog
          /\ drawing' = FALSE
          /\ annotations' = Append(annotations, current)
          /\ current' = Null
          /\ canvas' = RedrawEffect(annotations', current')
     ELSE UNCHANGED <<annotations, drawing, current, canvas>>
  /\ ev' = Event(name, Null)
  /\ UNCHANGED <<tool, color, pendingText, textInput, imgRef, imgLoads>>
  /\ AnnFrame

\* onMouseUp, bound to both mouseup and mouseleave of the canvas; it returns
\* at once when no drag is in progress
onMouseUp(name) ==
  /\ Annotating
  /\ IF drawing /\ current # Null
     THEN /\ Len(annotations) < MaxLog
          /\ drawing' = FALSE
          /\ annotations' = Append(annotations, current)
          /\ current' = Null
          /\ canvas' = RedrawEffect(annotations', current')
     ELSE UNCHANGED <<annotations, drawing, current, canvas>>
  /\ ev' = Event(name, Null)
  /\ UNCHANGED <<tool, color, pendingText, textInput, imgRef, imgLoads>>
  /\ AnnFrame

\* the text input's onChange
setTextInput(s) ==
  /\ Annotating
  /\ pendingText # Null
  /\ textInput' = s
  /\ ev' = Event("setTextInput", Null)
  /\ UNCHANGED <<annotations, tool, color, drawing, current, pendingText,
                 imgRef, imgLoads, canvas>>
  /\ AnnFrame

\* commitText, bound to Enter in the text input and to the Add button
commitText ==
  /\ Annotating
  /\ pendingText # Null
  /\ IF trim(textInput) = <<>>
     THEN /\ pendingText' = Null
          /\ UNCHANGED <<annotations, textInput, canvas>>
     ELSE /\ Len(annotations) < MaxLog
          /\ annotations' = Append(annotations,
                [tool |-> "text", color |-> color,
                 points |-> <<pendingText>>, text |-> trim(textInput)])
          /\ pendingText' = Null
          /\ textInput' = <<>>
          /\ canvas' = RedrawEffect(annotations', current)
  /\ ev' = Event("commitText", Null)
  /\ UNCHANGED <<tool, color, drawing, current, imgRef, imgLoads>>
  /\ AnnFrame

\* the close button of the text input
closeText ==
  /\ Annotating
  /\ pendingText # Null
  /\ pendingText' = Null
  /\ ev' = Event("closeText", Null)
  /\ UNCHANGED <<annotations, tool, color, drawing, current, textInput,
                 imgRef, imgLoads, canvas>>
  /\ AnnFrame

\* an undo that also drops the annotation in progress
undoDropsCurrent ==
  /\ Annotating
  /\ annotations' = sliceLast(annotations)
  /\ current' = Null
  /\ drawing' = FALSE
  /\ canvas' = RedrawEffect(annotations', current')
  /\ ev' = Event("undo", Null)
  /\ UNCHANGED <<tool, color, pendingText, textInput, imgRef, imgLoads>>
  /\ AnnFrame

\* undo; its button is disabled on an empty log, where undo changes nothing
undo ==
  /\ Annotating
  /\ annotations' = sliceLast(annotations)
  /\ canvas' = RedrawEffect(annotations', current)
  /\ ev' = Event("undo", Null)
  /\ UNCHANGED <<tool, color, drawing, current, pendingText, textInput,
                 imgRef, imgLoads>>
  /\ AnnFrame

\* clear; its button is disabled on an empty log, where clear changes nothing
clear ==
  /\ Annotating
  /\ annotations' = <<>>
  /\ canvas' = RedrawEffect(annotations', current)
  /\ ev' = Event("clear", Null)
  /\ UNCHANGED <<tool, color, drawing, current, pendingText, textInput,
                 imgRef, imgLoads>>
  /\ AnnFrame

\* img.onload of the load effect: sizes the canvas and draws the base image only
annImgOnload(src) ==
  /\ Annotating
  /\ src \in imgLoads
  /\ imgRef' = src
  /\ imgLoads' = imgLoads \ {src}
  /\ canvas' = [img |-> src, marks |-> <<>>]
  /\ ev' = Event("annImgOnload", Null)
  /\ UNCHANGED <<annotations, tool, color, drawing, current, pendingText,
                 textInput>>
  /\ AnnFrame

----------------------------------------------------------------------------
(* Component life cycle *)

\* CropOverlay's useState initial values
CropMounted ==
  /\ drag' = Null
  /\ rect' = Null
  /\ confirmed' = FALSE

\* AnnotationCanvas's useState initial values; the load effect starts loading src
AnnMounted(src) ==
  /\ annotations' = <<>>
  /\ tool' = "rect"
  /\ color' = "#ef4444"
  /\ drawing' = FALSE
  /\ current' = Null
  /\ pendingText' = Null
  /\ textInput' = <<>>
  /\ imgRef' = Null
  /\ imgLoads' = {src}
  /\ canvas' = BlankCanvas

\* the state of an AnnotationCanvas that is not mounted
AnnUnmounted ==
  /\ annotations' = <<>>
  /\ tool' = "rect"
  /\ color' = "#ef4444"
  /\ drawing' = FALSE
  /\ current' = Null
  /\ pendingText' = Null
  /\ textInput' = <<>>
  /\ imgRef' = Null
  /\ imgLoads' = {}
  /\ canvas' = BlankCanvas

\* crop-image loads of an unmounted Screenshotter can no longer set its state
staleLoads(loads) == {[l EXCEPT !.live = FALSE] : l \in loads}

\* the Screenshotter leaves the tree with everything below it
ScreenshotterUnmounted ==
  /\ phase' = "crop"
  /\ cropRect' = Null
  /\ croppedDataUrl' = EmptyUrl
  /\ cropLoads' = staleLoads(cropLoads)
  /\ CropMounted
  /\ AnnUnmounted

----------------------------------------------------------------------------
(* capture.ts: hiding the SDK's elements around getDisplayMedia *)

LauncherId == "__feedback_agent_launcher__"
LoaderId == "__feedback_agent_loader__"
ModalId == "__feedback_agent_modal__"
SDK_ELEMENT_IDS == <<LauncherId, LoaderId, ModalId>>

\* document.getElementById(id) finds an element: the launcher's and the
\* modal's host div while the page holds one; nothing creates a loader
getElementById(id) ==
  \/ id = LauncherId /\ body.launcher > 0
  \/ id = ModalId /\ body.modal > 0

\* the Saved[] hideSdkElements returns: the elements found, in the order of
\* the ids, each with the visibility it had
hideSdkElements ==
  LET found == SelectSeq(SDK_ELEMENT_IDS, getElementById)
  IN [i \in 1..Len(found) |-> [el |-> found[i], visibility |-> style[found[i]]]]

\* the styles hideSdkElements leaves: "hidden" on every element found
hiddenStyle ==
  [id \in DOMAIN style |-> IF getElementById(id) THEN "hidden" ELSE style[id]]

\* restoreElements(saved): each saved element gets its saved visibility
RECURSIVE restoreElements(_, _)
restoreElements(saved, st) ==
  IF saved = <<>> THEN st
  ELSE restoreElements(Tail(saved),
                       [st EXCEPT ![Head(saved).el] = Head(saved).visibility])

\* a MediaStream of n live tracks, and the same after t.stop() on each
LiveStream(n) == [tracks |-> [i \in 1..n |-> "live"]]
stopTracks(str) == [tracks |-> [i \in DOMAIN str.tracks |-> "ended"]]

\* host divs as createHostDiv makes them: their cssText starts with
\* all:initial, so style.visibility reads "initial"
HostDivStyle == [id \in {LauncherId, LoaderId, ModalId} |-> "initial"]

\* the tracks of one display stream
MaxTracks == 2

\* modals opened in one run, and close timers pending at once
MaxOpened == 2
MaxTimers == 2

----------------------------------------------------------------------------
(* FeedbackModal: the screenshot handlers *)

\* the form takes input: its host div is not hidden (an element with
\* visibility "hidden" gets neither pointer nor keyboard input), no overlay
\* covers it and the success screen is not shown
FormActive ==
  /\ style[ModalId] # "hidden"
  /\ ~screenshotterOpen
  /\ modalState \notin {"recording", "success"}

\* handleTakeScreenshot up to its await: captureFullScreen runs to its
\* first await, which is after hideSdkElements
handleTakeScreenshot ==
  /\ FormActive
  /\ mediaType = "none"
  /\ modalState \notin {"submitting", "capturing"}
  /\ modalState' = "capturing"
  /\ capturePending' = TRUE
  /\ savedSdk' = hideSdkElements
  /\ style' = hiddenStyle
  /\ stream' = Null
  /\ ev' = Event("handleTakeScreenshot", Null)
  /\ UNCHANGED <<mediaType, mediaDataUrl, fullScreenDataUrl, shotVars,
                 cropVars, annVars, inputs, sdkVars, recordingSaved, formVars,
                 outcomes, call>>

\* the two animation frames have passed and getDisplayStream resolves with
\* a stream of n tracks
getDisplayStreamResolved(n) ==
  /\ capturePending
  /\ stream = Null
  /\ stream' = LiveStream(n)
  /\ ev' = Event("getDisplayStreamResolved", Null)
  /\ UNCHANGED <<modalVars, shotVars, cropVars, annVars, inputs, sdkVars,
                 style, savedSdk, recordingSaved, formVars, outcomes, call>>

\* a finally that stops the tracks and leaves the elements hidden
captureFinallyTracksOnly ==
  /\ stream' = IF stream # Null THEN stopTracks(stream) ELSE stream
  /\ savedSdk' = <<>>
  /\ UNCHANGED <<style, recordingSaved>>

\* the finally of captureFullScreen: the tracks of an obtained stream are
\* stopped and the saved elements restored; savedSdk ends with the call
captureFinally ==
  /\ stream' = IF stream # Null THEN stopTracks(stream) ELSE stream
  /\ style' = restoreElements(savedSdk, style)
  /\ savedSdk' = <<>>
  /\ UNCHANGED recordingSaved

\* captureFullScreen resolves with the frame drawn from the stream: the
\* Screenshotter is mounted in its crop phase
captureResolved ==
  /\ capturePending
  /\ stream # Null
  /\ capturePending' = FALSE
  /\ captureFinally
  /\ fullScreenDataUrl' = FullScreenUrl
  /\ modalState' = "idle"
  /\ outcomes' = <<>>
  /\ ev' = Event("captureResolved", Null)
  /\ UNCHANGED <<mediaType, mediaDataUrl, shotVars, cropVars, annVars,
                 inputs, sdkVars, formVars, call>>

\* the error banner as rendered: the message while the state is "error"
errorShown == IF modalState = "error" THEN errorMessage ELSE ""

\* the event of a rejected capture, with the message of the error thrown
CaptureError(cancelled) ==
  [name |-> "captureRejected", pos |-> Null,
   error |-> IF cancelled THEN "CANCELLED" ELSE "other"]

\* a handler whose catch does not return: every rejection ends in idle
captureRejectedFallsThrough(cancelled) ==
  /\ capturePending
  /\ capturePending' = FALSE
  /\ captureFinally
  /\ modalState' = "idle"
  /\ errorMessage' = IF cancelled THEN errorMessage
                     ELSE "Screenshot capture failed."
  /\ ev' = CaptureError(cancelled)
  /\ UNCHANGED <<mediaType, mediaDataUrl, fullScreenDataUrl, shotVars,
                 cropVars, annVars, inputs, sdkVars, outcomes, call>>
  /\ UNCHANGED <<title, description, attachmentName, recordingHandle,
                 recorder, fileReads, inFlight, payload>>

\* captureFullScreen rejects, from getDisplayStream or from the video:
\* "CANCELLED" when the error's name is NotAllowedError
captureRejected(cancelled) ==
  /\ capturePending
  /\ capturePending' = FALSE
  /\ captureFinally
  /\ modalState' = IF cancelled THEN "idle" ELSE "error"
  /\ errorMessage' = IF cancelled THEN errorMessage
                     ELSE "Screenshot capture failed."
  /\ ev' = CaptureError(cancelled)
  /\ UNCHANGED <<mediaType, mediaDataUrl, fullScreenDataUrl, shotVars,
                 cropVars, annVars, inputs, sdkVars, outcomes, call>>
  /\ UNCHANGED <<title, description, attachmentName, recordingHandle,
                 recorder, fileReads, inFlight, payload>>

\* handleScreenshotterDone, the Screenshotter's onDone
handleScreenshotterDone(annotatedDataUrl) ==
  /\ fullScreenDataUrl' = EmptyUrl
  /\ mediaDataUrl' = annotatedDataUrl
  /\ mediaType' = "screenshot"
  /\ modalState' = "idle"
  /\ outcomes' = Append(outcomes, "onDone")
  /\ ScreenshotterUnmounted
  /\ UNCHANGED <<capturePending, inputs, sdkVars, captureVars, formVars, call>>

\* a cancel that keeps the cropped bitmap as the attached screenshot
handleScreenshotterCancelKeepsCrop ==
  /\ fullScreenDataUrl' = EmptyUrl
  /\ mediaDataUrl' = croppedDataUrl
  /\ mediaType' = IF croppedDataUrl = EmptyUrl THEN mediaType ELSE "screenshot"
  /\ modalState' = "idle"
  /\ outcomes' = Append(outcomes, "onCancel")
  /\ ScreenshotterUnmounted
  /\ UNCHANGED <<capturePending, inputs, sdkVars, captureVars, formVars, call>>

\* a cancel that reports to the caller but leaves the Screenshotter open
handleScreenshotterCancelStaysOpen ==
  /\ modalState' = "idle"
  /\ outcomes' = Append(outcomes, "onCancel")
  /\ UNCHANGED <<mediaType, mediaDataUrl, fullScreenDataUrl, capturePending,
                 shotVars, cropVars, annVars, inputs, sdkVars, captureVars, formVars, call>>

\* handleScreenshotterCancel, the Screenshotter's onCancel
handleScreenshotterCancel ==
  /\ fullScreenDataUrl' = EmptyUrl
  /\ modalState' = "idle"
  /\ outcomes' = Append(outcomes, "onCancel")
  /\ ScreenshotterUnmounted
  /\ UNCHANGED <<mediaType, mediaDataUrl, capturePending, inputs, sdkVars, captureVars,
                 formVars, call>>

\* clearMedia, the remove button of the media preview
clearMedia ==
  /\ FormActive
  /\ mediaType # "none"
  /\ mediaDataUrl' = EmptyUrl
  /\ mediaType' = "none"
  /\ attachmentName' = ""
  /\ ev' = Event("clearMedia", Null)
  /\ UNCHANGED <<modalState, fullScreenDataUrl, capturePending, shotVars,
                 cropVars, annVars, inputs, sdkVars, captureVars, outcomes, call>>
  /\ UNCHANGED <<title, description, errorMessage, recordingHandle, recorder,
                 fileReads, inFlight, payload>>

----------------------------------------------------------------------------
(* FeedbackModal: the form, recording, file attachment and submit *)

\* the data URLs of a finished recording and of a file that was read
RecordingUrl == [kind |-> "webm"]
FileUrl(name) == [kind |-> "file", name |-> name]

\* an object literal without fields, and { ...obj, ...more }
NoFields == <<>>
spread(obj, more) ==
  [k \in DOMAIN obj \cup DOMAIN more |->
     IF k \in DOMAIN more THEN more[k] ELSE obj[k]]

\* a payload whose attachment_name goes by the stored name alone
FeedbackPayloadByName ==
  spread(spread(spread(spread(
    [title |-> trim(title), description |-> trim(description)],
    IF mediaType = "screenshot" THEN [screen_shot |-> mediaDataUrl]
    ELSE NoFields),
    IF mediaType = "recording" THEN [recording |-> mediaDataUrl]
    ELSE NoFields),
    IF mediaType = "attachment" THEN [attachment |-> mediaDataUrl]
    ELSE NoFields),
    IF attachmentName # "" THEN [attachment_name |-> attachmentName]
    ELSE NoFields)

\* the object handleSubmit passes to submitFeedback, built from the state of
\* the render the handler belongs to; the auto-detected fields (category,
\* pageURL, device, versions, timestamp) are always present and left out here
FeedbackPayload ==
  spread(spread(spread(
    [title |-> trim(title), description |-> trim(description)],
    IF mediaType = "screenshot" THEN [screen_shot |-> mediaDataUrl]
    ELSE NoFields),
    IF mediaType = "recording" THEN [recording |-> mediaDataUrl]
    ELSE NoFields),
    IF mediaType = "attachment"
    THEN [attachment |-> mediaDataUrl, attachment_name |-> attachmentName]
    ELSE NoFields)

\* submissions in flight at once
MaxInFlight == 1

FormFrame ==
  UNCHANGED <<fullScreenDataUrl, capturePending, shotVars, cropVars, annVars,
              sdkVars, captureVars, inputs, outcomes, call>>

\* the same for the handlers around startRecording, which hides and restores
\* the SDK's elements
RecordingFrame ==
  UNCHANGED <<fullScreenDataUrl, capturePending, shotVars, cropVars, annVars,
              sdkVars, inputs, outcomes, call>>

\* the title input's onChange; the input is disabled while submitting
setTitle(t) ==
  /\ FormActive
  /\ modalState # "submitting"
  /\ title' = t
  /\ ev' = Event("setTitle", Null)
  /\ UNCHANGED <<modalState, mediaType, mediaDataUrl, description,
                 attachmentName, errorMessage, recordingHandle, recorder,
                 fileReads, inFlight, payload>>
  /\ FormFrame

\* the description textarea's onChange; disabled while submitting
setDescription(d) ==
  /\ FormActive
  /\ modalState # "submitting"
  /\ description' = d
  /\ ev' = Event("setDescription", Null)
  /\ UNCHANGED <<modalState, mediaType, mediaDataUrl, title, attachmentName,
                 errorMessage, recordingHandle, recorder, fileReads, inFlight,
                 payload>>
  /\ FormFrame

\* the media option buttons are rendered while no media is attached; Record
\* and Attach are disabled while submitting or capturing
MediaOptionEnabled ==
  /\ FormActive
  /\ mediaType = "none"
  /\ modalState \notin {"submitting", "capturing"}

\* handleStartRecording up to its await; one recorder at a time
handleStartRecording ==
  /\ MediaOptionEnabled
  /\ recorder = "none"
  /\ modalState' = "recording"
  /\ recorder' = "starting"
  /\ recordingSaved' = hideSdkElements
  /\ style' = hiddenStyle
  /\ ev' = Event("handleStartRecording", Null)
  /\ UNCHANGED <<mediaType, mediaDataUrl, title, description, attachmentName,
                 errorMessage, recordingHandle, fileReads, inFlight, payload>>
  /\ UNCHANGED <<savedSdk, stream>>
  /\ RecordingFrame

\* startRecording resolves with the handle of the running recorder
startRecordingResolved ==
  /\ recorder = "starting"
  /\ recorder' = "recording"
  /\ recordingHandle' = [stop |-> "recorder.stop"]
  /\ style' = restoreElements(recordingSaved, style)
  /\ recordingSaved' = <<>>
  /\ ev' = Event("startRecordingResolved", Null)
  /\ UNCHANGED <<modalState, mediaType, mediaDataUrl, title, description,
                 attachmentName, errorMessage, fileReads, inFlight, payload>>
  /\ UNCHANGED <<savedSdk, stream>>
  /\ RecordingFrame

\* startRecording rejects: "CANCELLED" when permission was denied
startRecordingRejected(cancelled) ==
  /\ recorder = "starting"
  /\ recorder' = "none"
  /\ modalState' = IF cancelled THEN "idle" ELSE "error"
  /\ errorMessage' = IF cancelled THEN errorMessage
                     ELSE "Recording failed to start."
  /\ style' = restoreElements(recordingSaved, style)
  /\ recordingSaved' = <<>>
  /\ ev' = Event("startRecordingRejected", Null)
  /\ UNCHANGED <<mediaType, mediaDataUrl, title, description, attachmentName,
                 recordingHandle, fileReads, inFlight, payload>>
  /\ UNCHANGED <<savedSdk, stream>>
  /\ RecordingFrame

\* the Stop button of the recording overlay
handleStopRecording ==
  /\ ~screenshotterOpen
  /\ modalState = "recording"
  /\ recorder' = IF recordingHandle # Null /\ recorder = "recording"
                 THEN "stopping" ELSE recorder
  /\ ev' = Event("handleStopRecording", Null)
  /\ UNCHANGED <<modalState, mediaType, mediaDataUrl, title, description,
                 attachmentName, errorMessage, recordingHandle, fileReads,
                 inFlight, payload>>
  /\ FormFrame

\* the browser's "Stop sharing" button: the video track's onended
trackOnended ==
  /\ recorder = "recording"
  /\ recorder' = "stopping"
  /\ ev' = Event("trackOnended", Null)
  /\ UNCHANGED <<modalState, mediaType, mediaDataUrl, title, description,
                 attachmentName, errorMessage, recordingHandle, fileReads,
                 inFlight, payload>>
  /\ FormFrame

\* the recorder's onstop read the blob: the onDone passed to startRecording
recordingOnDone ==
  /\ recorder = "stopping"
  /\ recorder' = "none"
  /\ mediaDataUrl' = RecordingUrl
  /\ mediaType' = "recording"
  /\ recordingHandle' = Null
  /\ modalState' = "idle"
  /\ ev' = Event("recordingOnDone", Null)
  /\ UNCHANGED <<title, description, attachmentName, errorMessage, fileReads,
                 inFlight, payload>>
  /\ FormFrame

\* handleAttachment and handleFileChange: the user picks a file and its read
\* starts
handleFileChange(file) ==
  /\ MediaOptionEnabled
  /\ fileReads' = fileReads \cup {file}
  /\ ev' = Event("handleFileChange", Null)
  /\ UNCHANGED <<modalState, mediaType, mediaDataUrl, title, description,
                 attachmentName, errorMessage, recordingHandle, recorder,
                 inFlight, payload>>
  /\ FormFrame

\* reader.onload of handleFileChange
fileReaderOnload(file) ==
  /\ file \in fileReads
  /\ fileReads' = fileReads \ {file}
  /\ mediaDataUrl' = FileUrl(file)
  /\ mediaType' = "attachment"
  /\ attachmentName' = file
  /\ ev' = Event("fileReaderOnload", Null)
  /\ UNCHANGED <<modalState, title, description, errorMessage,
                 recordingHandle, recorder, inFlight, payload>>
  /\ FormFrame

\* handleSubmit up to its await: a blank title sends nothing
handleSubmit ==
  /\ FormActive
  /\ modalState # "submitting"
  /\ IF trim(title) = <<>>
     THEN UNCHANGED <<modalState, errorMessage, inFlight, payload>>
     ELSE /\ inFlight < MaxInFlight
          /\ modalState' = "submitting"
          /\ errorMessage' = ""
          /\ payload' = FeedbackPayload
          /\ inFlight' = inFlight + 1
  /\ ev' = Event("handleSubmit", Null)
  /\ UNCHANGED <<mediaType, mediaDataUrl, title, description, attachmentName,
                 recordingHandle, recorder, fileReads>>
  /\ FormFrame

\* the form submitted from the keyboard (Enter in a field or on the Submit
\* button) while an overlay is open: the backdrop then has opacity 0 and
\* pointer-events none, which keeps its controls in the focus order; the
\* fields and the Submit button are disabled only while submitting
handleSubmitByKey ==
  /\ style[ModalId] # "hidden"
  /\ screenshotterOpen \/ modalState = "recording"
  /\ modalState \notin {"submitting", "success"}
  /\ IF trim(title) = <<>>
     THEN UNCHANGED <<modalState, errorMessage, inFlight, payload>>
     ELSE /\ inFlight < MaxInFlight
          /\ modalState' = "submitting"
          /\ errorMessage' = ""
          /\ payload' = FeedbackPayload
          /\ inFlight' = inFlight + 1
  /\ ev' = Event("handleSubmitByKey", Null)
  /\ UNCHANGED <<mediaType, mediaDataUrl, title, description, attachmentName,
                 recordingHandle, recorder, fileReads>>
  /\ FormFrame

\* the event of a settled submission, with how the request ended
Settled(result) == [name |-> "submitSettled", pos |-> Null, result |-> result]

\* a submitFeedback that does not test res.ok: every response is a success
submitSettledAnyResponse(result) ==
  /\ inFlight > 0
  /\ inFlight' = inFlight - 1
  /\ modalState' = IF result \in {"ok", "notOk"} THEN "success" ELSE "error"
  /\ errorMessage' = IF result = "failed" THEN "Failed to fetch"
                     ELSE errorMessage
  /\ ev' = Settled(result)
  /\ UNCHANGED <<mediaType, mediaDataUrl, title, description, attachmentName,
                 recordingHandle, recorder, fileReads, payload>>
  /\ FormFrame

\* submitFeedback settles: an ok response, a non-ok response or a failed fetch
submitSettled(result) ==
  /\ inFlight > 0
  /\ inFlight' = inFlight - 1
  /\ modalState' = IF result = "ok" THEN "success" ELSE "error"
  /\ errorMessage' =
       CASE result = "ok" -> errorMessage
         [] result = "notOk" -> "Server responded with 500: Internal Server Error"
         [] result = "failed" -> "Failed to fetch"
  /\ ev' = Settled(result)
  /\ UNCHANGED <<mediaType, mediaDataUrl, title, description, attachmentName,
                 recordingHandle, recorder, fileReads, payload>>
  /\ FormFrame

----------------------------------------------------------------------------
(* CropOverlay *)

Cropping == screenshotterOpen /\ phase = "crop"

\* a toRect that keeps the sign of the drag direction
toRectSigned(ax, ay, bx, by) ==
  [x |-> Min(ax, bx), y |-> Min(ay, by), w |-> bx - ax, h |-> by - ay]

toRect(ax, ay, bx, by) ==
  [x |-> Min(ax, bx), y |-> Min(ay, by), w |-> Abs(bx - ax), h |-> Abs(by - ay)]

hasRect == rect # Null /\ rect.w > 10 /\ rect.h > 10

\* an absolutely positioned div of the mask
Strip(l, t, w, h) == [left |-> l, top |-> t, width |-> w, height |-> h]

\* a MaskLayer whose side strips run over the whole height of the viewport
MaskLayerTallSides(r, vp) ==
  IF r = Null \/ r.w <= 0 \/ r.h <= 0
  THEN <<Strip(0, 0, vp.w, vp.h)>>
  ELSE <<Strip(0, 0, vp.w, r.y),
         Strip(0, r.y + r.h, vp.w, vp.h - (r.y + r.h)),
         Strip(0, 0, r.x, vp.h),
         Strip(r.x + r.w, 0, vp.w - (r.x + r.w), vp.h)>>

\* MaskLayer: one div over the viewport (inset 0) when there is no rectangle
\* or it has no area, otherwise the top, bottom, left and right divs
MaskLayer(r, vp) ==
  IF r = Null \/ r.w <= 0 \/ r.h <= 0
  THEN <<Strip(0, 0, vp.w, vp.h)>>
  ELSE <<Strip(0, 0, vp.w, r.y),
         Strip(0, r.y + r.h, vp.w, vp.h - (r.y + r.h)),
         Strip(0, r.y, r.x, r.h),
         Strip(r.x + r.w, r.y, vp.w - (r.x + r.w), r.h)>>

CropFrame ==
  UNCHANGED <<modalVars, shotVars, annVars, inputs, sdkVars, captureVars, formVars,
              outcomes, call>>

\* an onPointerDown that starts a drag over the previous selection
onPointerDownKeepsSelection(x, y) ==
  /\ Cropping
  /\ drag' = [startX |-> x, startY |-> y]
  /\ ev' = Event("onPointerDown", Pt(x, y))
  /\ UNCHANGED <<rect, confirmed>>
  /\ CropFrame

onPointerDown(x, y) ==
  /\ Cropping
  /\ drag' = [startX |-> x, startY |-> y]
  /\ rect' = Null
  /\ confirmed' = FALSE
  /\ ev' = Event("onPointerDown", Pt(x, y))
  /\ CropFrame

onPointerMove(x, y) ==
  /\ Cropping
  /\ drag # Null
  /\ rect' = toRect(drag.startX, drag.startY, x, y)
  /\ ev' = Event("onPointerMove", Pt(x, y))
  /\ UNCHANGED <<drag, confirmed>>
  /\ CropFrame

\* an onPointerUp whose dead zone excludes its 10 pixel border
onPointerUpInclusive(name) ==
  /\ Cropping
  /\ drag' = Null
  /\ confirmed' = IF rect # Null /\ rect.w >= 10 /\ rect.h >= 10
                  THEN TRUE ELSE confirmed
  /\ ev' = Event(name, Null)
  /\ UNCHANGED rect
  /\ CropFrame

\* onPointerUp, bound to both mouseup and mouseleave of the overlay
onPointerUp(name) ==
  /\ Cropping
  /\ drag' = Null
  /\ confirmed' = IF rect # Null /\ rect.w > 10 /\ rect.h > 10
                  THEN TRUE ELSE confirmed
  /\ ev' = Event(name, Null)
  /\ UNCHANGED rect
  /\ CropFrame

\* the buttons below the selection are rendered when confirmed && hasRect
redoClick ==
  /\ Cropping
  /\ confirmed /\ hasRect
  /\ rect' = Null
  /\ confirmed' = FALSE
  /\ ev' = Event("redoClick", Null)
  /\ UNCHANGED drag
  /\ CropFrame

----------------------------------------------------------------------------
(* Screenshotter *)

\* a crop that scales both axes by the horizontal ratio
cropRegionOneScale(r, nat, view) ==
  [kind |-> "crop",
   sx |-> [num |-> r.x * nat.w, den |-> view.w],
   sy |-> [num |-> r.y * nat.w, den |-> view.w],
   sw |-> [num |-> r.w * nat.w, den |-> view.w],
   sh |-> [num |-> r.h * nat.w, den |-> view.w],
   w |-> (r.w * nat.w) \div view.w,
   h |-> (r.h * nat.w) \div view.w]

\* the source region and the canvas size handleCropConfirm's onload computes:
\* sx, sy, sw, sh as fractions over the viewport size, the canvas size in
\* whole pixels (canvas.width and canvas.height truncate the value assigned)
cropRegion(r, nat, view) ==
  [kind |-> "crop",
   sx |-> [num |-> r.x * nat.w, den |-> view.w],
   sy |-> [num |-> r.y * nat.h, den |-> view.h],
   sw |-> [num |-> r.w * nat.w, den |-> view.w],
   sh |-> [num |-> r.h * nat.h, den |-> view.h],
   w |-> (r.w * nat.w) \div view.w,
   h |-> (r.h * nat.h) \div view.h]

\* an "Annotate" button rendered for every rectangle
handleCropConfirmAnyRect ==
  /\ Cropping
  /\ rect # Null
  /\ Cardinality(cropLoads) < MaxLoads
  /\ cropLoads' = cropLoads \cup {[rect |-> rect, live |-> TRUE]}
  /\ ev' = Event("handleCropConfirm", Null)
  /\ UNCHANGED <<modalVars, phase, cropRect, croppedDataUrl, cropVars,
                 annVars, inputs, sdkVars, captureVars, formVars, outcomes, call>>

\* handleCropConfirm up to img.src: the "Annotate" button of the overlay
handleCropConfirm ==
  /\ Cropping
  /\ confirmed /\ hasRect
  /\ Cardinality(cropLoads) < MaxLoads
  /\ cropLoads' = cropLoads \cup {[rect |-> rect, live |-> TRUE]}
  /\ ev' = Event("handleCropConfirm", Null)
  /\ UNCHANGED <<modalVars, phase, cropRect, croppedDataUrl, cropVars,
                 annVars, inputs, sdkVars, captureVars, formVars, outcomes, call>>

\* img.onload of handleCropConfirm
cropImgOnload(l) ==
  /\ l \in cropLoads
  /\ cropLoads' = cropLoads \ {l}
  /\ ev' = Event("cropImgOnload", Null)
  /\ IF l.live
     THEN /\ croppedDataUrl' = cropRegion(l.rect, Native, Viewport)
          /\ cropRect' = l.rect
          /\ phase' = "annotate"
          /\ CropMounted
          /\ IF phase = "crop"
             THEN AnnMounted(croppedDataUrl')
             ELSE /\ imgLoads' = IF croppedDataUrl' = croppedDataUrl
                                 THEN imgLoads
                                 ELSE imgLoads \cup {croppedDataUrl'}
                  /\ UNCHANGED <<annotations, tool, color, drawing, current,
                                 pendingText, textInput, imgRef, canvas>>
     ELSE UNCHANGED <<phase, cropRect, croppedDataUrl, cropVars, annVars>>
  /\ UNCHANGED <<modalVars, inputs, sdkVars, captureVars, formVars, outcomes, call>>

\* the image of handleCropConfirm fails to decode: no onerror is set, so the
\* load ends without a callback
cropImgOnerror(l) ==
  /\ l \in cropLoads
  /\ cropLoads' = cropLoads \ {l}
  /\ ev' = Event("cropImgOnerror", Null)
  /\ UNCHANGED <<modalVars, phase, cropRect, croppedDataUrl, cropVars,
                 annVars, inputs, sdkVars, captureVars, formVars, outcomes, call>>

\* getAnnotatedDataUrl: canvasRef.current is set whenever the AnnotationCanvas
\* is mounted, so the fallback to the cropped bitmap is never taken
getAnnotatedDataUrl == toDataURL(canvas)

\* handleDone, the "Use this screenshot" button; annotatorRef.current is set
\* throughout the annotate phase
handleDone ==
  /\ Annotating
  /\ handleScreenshotterDone(getAnnotatedDataUrl)
  /\ ev' = Event("handleDone", Null)

\* an Escape whose keydown reaches a modal listener that lacks the
\* !screenshotterOpen test: the session is cancelled and the modal closed
escapeKeyClosesModal ==
  /\ screenshotterOpen
  /\ fullScreenDataUrl' = EmptyUrl
  /\ modalState' = "idle"
  /\ outcomes' = Append(outcomes, "onCancel")
  /\ ScreenshotterUnmounted
  /\ closeTimers' = IF Len(closeTimers) < MaxTimers
                    THEN Append(closeTimers,
                                [modal |-> opened, state |-> modalState])
                    ELSE closeTimers
  /\ ev' = Event("escapeKey", Null)
  /\ UNCHANGED <<mediaType, mediaDataUrl, capturePending, inputs, state,
                 launcherReactRoot, modalReactRoot, body, opened,
                 captureVars, formVars, call>>

\* the document keydown listener, for Escape; an Escape typed into the text
\* input first runs the input's onKeyDown (setPendingText(null)) and then
\* bubbles to this listener, which unmounts the annotator
\* The modal's own keydown listener holds screenshotterOpen = true for this
\* key (or was removed by the re-render the cancel caused) and does nothing
escapeKey ==
  /\ screenshotterOpen
  /\ handleScreenshotterCancel
  /\ ev' = Event("escapeKey", Null)

\* the overlay's Cancel button, rendered when confirmed && hasRect
cropCancelClick ==
  /\ Cropping
  /\ confirmed /\ hasRect
  /\ handleScreenshotterCancel
  /\ ev' = Event("cropCancelClick", Null)

\* the header close button and the footer Cancel button of the annotate phase
annotateCancelClick ==
  /\ Annotating
  /\ handleScreenshotterCancel
  /\ ev' = Event("annotateCancelClick", Null)

----------------------------------------------------------------------------
(* The SDK: init, destroy and the launcher (sdk.ts, state.ts) *)

\* the singleton of state.ts as the module is loaded, and after resetState
InitialState ==
  [config |-> Null, initialized |-> FALSE, launcherRoot |-> Null,
   modalRoot |-> Null]

\* a host div, and the React root created on it
HostDiv(id) == [id |-> id]
createRoot(container) == [container |-> container]

\* document.body without host divs: body counts them by id
EmptyBody == [launcher |-> 0, modal |-> 0]

\* an SDKConfig; "" is a missing required field, position "absent" an absent
\* key
SDKConfig(k, pr, u, pos) ==
  [apiKey |-> k, projectId |-> pr, apiUrl |-> u, position |-> pos]

\* TRUE when validateConfig returns, FALSE when it throws
validateConfig(config) ==
  /\ config.apiKey # ""
  /\ config.projectId # ""
  /\ config.apiUrl # ""

\* { position: "bottom-right", ...config }
resolvedConfig(config) ==
  [config EXCEPT !.position = IF @ = "absent" THEN "bottom-right" ELSE @]

\* mountLauncher: createHostDiv, setLauncherRoot, createRoot and render; the
\* new div has the visibility "initial", which is what style holds for its id
\* whenever the SDK creates a host div (no capture runs without a modal, and
\* a run that captures keeps its host divs)
mountLauncher ==
  /\ body' = [body EXCEPT !.launcher = @ + 1]
  /\ launcherReactRoot' = createRoot(HostDiv(LauncherId))

\* init without the isInitialized guard
initUnguarded(config) ==
  /\ IF ~validateConfig(config)
     THEN /\ UNCHANGED sdkVars
          /\ call' = [fn |-> "init", config |-> config, result |-> "threw"]
     ELSE /\ state' = [state EXCEPT !.config = resolvedConfig(config),
                                    !.initialized = TRUE,
                                    !.launcherRoot = HostDiv(LauncherId)]
          /\ mountLauncher
          /\ UNCHANGED <<modalReactRoot, opened, closeTimers>>
          /\ call' = [fn |-> "init", config |-> config, result |-> "returned"]
  /\ UNCHANGED <<sessionVars, inputs, ev, outcomes>>

\* init marking the SDK initialized before it validates the configuration
initMarksFirst(config) ==
  /\ IF state.initialized
     THEN /\ UNCHANGED sdkVars
          /\ call' = [fn |-> "init", config |-> config, result |-> "warned"]
     ELSE IF ~validateConfig(config)
     THEN /\ state' = [state EXCEPT !.initialized = TRUE]
          /\ UNCHANGED <<launcherReactRoot, modalReactRoot, body, opened,
                         closeTimers>>
          /\ call' = [fn |-> "init", config |-> config, result |-> "threw"]
     ELSE /\ state' = [state EXCEPT !.config = resolvedConfig(config),
                                    !.initialized = TRUE,
                                    !.launcherRoot = HostDiv(LauncherId)]
          /\ mountLauncher
          /\ UNCHANGED <<modalReactRoot, opened, closeTimers>>
          /\ call' = [fn |-> "init", config |-> config, result |-> "returned"]
  /\ UNCHANGED <<sessionVars, inputs, ev, outcomes>>

\* init(config): warns and returns when already initialized, throws on an
\* invalid configuration, otherwise stores the configuration and mounts the
\* launcher
init(config) ==
  /\ IF state.initialized
     THEN /\ UNCHANGED sdkVars
          /\ call' = [fn |-> "init", config |-> config, result |-> "warned"]
     ELSE IF ~validateConfig(config)
     THEN /\ UNCHANGED sdkVars
          /\ call' = [fn |-> "init", config |-> config, result |-> "threw"]
     ELSE /\ state' = [state EXCEPT !.config = resolvedConfig(config),
                                    !.initialized = TRUE,
                                    !.launcherRoot = HostDiv(LauncherId)]
          /\ mountLauncher
          /\ UNCHANGED <<modalReactRoot, opened, closeTimers>>
          /\ call' = [fn |-> "init", config |-> config, result |-> "returned"]
  /\ UNCHANGED <<sessionVars, inputs, ev, outcomes>>

\* destroy that tears down the launcher only
destroyLauncherOnly ==
  /\ launcherReactRoot' = Null
  /\ body' = [body EXCEPT !.launcher = IF state.launcherRoot # Null
                                       THEN @ - 1 ELSE @]
  /\ state' = InitialState
  /\ call' = [fn |-> "destroy", config |-> Null, result |-> "returned",
              before |-> body]
  /\ UNCHANGED <<modalReactRoot, opened, closeTimers, sessionVars, inputs,
                 ev, outcomes>>

\* destroy(): unmounts both roots, removes both host divs, resets the state;
\* the call records the host divs the page held before it
destroy ==
  /\ modalReactRoot' = Null
  /\ launcherReactRoot' = Null
  /\ body' = [launcher |-> IF state.launcherRoot # Null
                           THEN body.launcher - 1 ELSE body.launcher,
              modal |-> IF state.modalRoot # Null
                        THEN body.modal - 1 ELSE body.modal]
  /\ state' = InitialState
  /\ call' = [fn |-> "destroy", config |-> Null, result |-> "returned",
              before |-> body]
  /\ UNCHANGED <<opened, closeTimers, sessionVars, inputs, ev, outcomes>>

\* a launcher click that opens a modal whether or not one is mounted
handleLauncherClickUnguarded ==
  /\ launcherReactRoot # Null
  /\ state.config # Null
  /\ opened < MaxOpened
  /\ state' = [state EXCEPT !.modalRoot = HostDiv(ModalId)]
  /\ body' = [body EXCEPT !.modal = @ + 1]
  /\ modalReactRoot' = createRoot(HostDiv(ModalId))
  /\ opened' = opened + 1
  /\ UNCHANGED <<launcherReactRoot, closeTimers>>
  /\ call' = [fn |-> "handleLauncherClick", config |-> Null,
              result |-> "returned", before |-> body]
  /\ UNCHANGED <<sessionVars, inputs, ev, outcomes>>

\* a click on the rendered launcher: ignored while a modal root is stored;
\* the call records the host divs the page held before it
handleLauncherClick ==
  /\ launcherReactRoot # Null
  /\ IF state.modalRoot # Null
     THEN UNCHANGED sdkVars
     ELSE /\ state.config # Null
          /\ opened < MaxOpened
          /\ state' = [state EXCEPT !.modalRoot = HostDiv(ModalId)]
          /\ body' = [body EXCEPT !.modal = @ + 1]
          /\ modalReactRoot' = createRoot(HostDiv(ModalId))
          /\ opened' = opened + 1
          /\ UNCHANGED <<launcherReactRoot, closeTimers>>
  /\ call' = [fn |-> "handleLauncherClick", config |-> Null,
              result |-> "returned", before |-> body]
  /\ UNCHANGED <<sessionVars, inputs, ev, outcomes>>

\* handleClose of the mounted modal, as the closure that holds the recording
\* handle `handle`: it stops a running recorder and schedules onClose; the
\* modal stays mounted until the timer fires, so it can run again. The
\* timer is kept with the modal that scheduled it and that modal's state
handleClose(handle) ==
  /\ modalReactRoot # Null
  /\ Len(closeTimers) < MaxTimers
  /\ recorder' = IF handle # Null /\ recorder = "recording"
                 THEN "stopping" ELSE recorder
  /\ closeTimers' = Append(closeTimers,
                           [modal |-> opened, state |-> modalState])
  /\ call' = [fn |-> "handleClose", config |-> Null, result |-> "returned"]
  /\ UNCHANGED <<state, launcherReactRoot, modalReactRoot, body, opened>>
  /\ UNCHANGED <<modalVars, shotVars, cropVars, annVars, captureVars, inputs,
                 outcomes>>
  /\ UNCHANGED <<title, description, attachmentName, errorMessage,
                 recordingHandle, fileReads, inFlight, payload>>

\* Escape on the document while no screenshotter is open. The listener is
\* renewed when modalState or screenshotterOpen changes and calls the
\* handleClose of that render: recordingHandle is set by a later render, in
\* which neither changes, so while a recording runs it holds null
escapeClose ==
  /\ modalState # "submitting"
  /\ ~screenshotterOpen
  /\ handleClose(IF modalState = "recording" THEN Null ELSE recordingHandle)
  /\ ev' = Event("escapeClose", Null)

\* the backdrop takes clicks while it is shown: not hidden, not under an
\* overlay (pointer-events none), not the success screen's
BackdropShown ==
  /\ style[ModalId] # "hidden"
  /\ ~screenshotterOpen
  /\ modalState \notin {"recording", "success"}

\* a click on the backdrop itself
backdropClick ==
  /\ BackdropShown
  /\ modalState # "submitting"
  /\ handleClose(recordingHandle)
  /\ ev' = Event("backdropClick", Null)

\* the footer's Cancel button, disabled while submitting
footerCancelClick ==
  /\ BackdropShown
  /\ modalState # "submitting"
  /\ handleClose(recordingHandle)
  /\ ev' = Event("footerCancelClick", Null)

\* the header's close button: onClick={handleClose}, never disabled
headerCloseClick ==
  /\ BackdropShown
  /\ handleClose(recordingHandle)
  /\ ev' = Event("headerCloseClick", Null)

\* the Close button of the success screen
successCloseClick ==
  /\ style[ModalId] # "hidden"
  /\ modalState = "success"
  /\ handleClose(recordingHandle)
  /\ ev' = Event("successCloseClick", Null)

\* the oldest close timer fires and calls the onClose it was given,
\* unmountModal: it unmounts the root held by the module variable and removes
\* the host div stored in the state; the call records the modal that
\* scheduled the timer and the host divs the page held
unmountModal ==
  /\ closeTimers # <<>>
  /\ closeTimers' = Tail(closeTimers)
  /\ modalReactRoot' = Null
  /\ IF state.modalRoot # Null
     THEN /\ body' = [body EXCEPT !.modal = @ - 1]
          /\ state' = [state EXCEPT !.modalRoot = Null]
     ELSE UNCHANGED <<body, state>>
  /\ UNCHANGED <<launcherReactRoot, opened>>
  /\ call' = [fn |-> "unmountModal", config |-> Null, result |-> "returned",
              timer |-> Head(closeTimers), before |-> body]
  /\ ev' = Event("unmountModal", Null)
  /\ UNCHANGED <<sessionVars, inputs, outcomes>>

----------------------------------------------------------------------------
(* The session *)

\* the components' state when the modal is first rendered
FormInitial ==
  /\ modalState = "idle"
  /\ mediaType = "none"
  /\ mediaDataUrl = EmptyUrl
  /\ fullScreenDataUrl = EmptyUrl
  /\ capturePending = FALSE
  /\ phase = "crop"
  /\ cropRect = Null
  /\ croppedDataUrl = EmptyUrl
  /\ cropLoads = {}
  /\ drag = Null
  /\ rect = Null
  /\ confirmed = FALSE
  /\ annotations = <<>>
  /\ tool = "rect"
  /\ color = "#ef4444"
  /\ drawing = FALSE
  /\ current = Null
  /\ pendingText = Null
  /\ textInput = <<>>
  /\ imgRef = Null
  /\ imgLoads = {}
  /\ canvas = BlankCanvas
  /\ title = <<>>
  /\ description = <<>>
  /\ attachmentName = ""
  /\ errorMessage = ""
  /\ recordingHandle = Null
  /\ recorder = "none"
  /\ fileReads = {}
  /\ inFlight = 0
  /\ payload = Null

\* the configuration the host page initialized the SDK with
PageConfig == SDKConfig("k1", "p1", "u1", "absent")

\* the SDK initialized and the modal just opened by a launcher click
ModalMounted ==
  /\ FormInitial
  /\ state = [config |-> resolvedConfig(PageConfig), initialized |-> TRUE,
              launcherRoot |-> HostDiv(LauncherId),
              modalRoot |-> HostDiv(ModalId)]
  /\ launcherReactRoot = createRoot(HostDiv(LauncherId))
  /\ modalReactRoot = createRoot(HostDiv(ModalId))
  /\ body = [launcher |-> 1, modal |-> 1]
  /\ opened = 1
  /\ closeTimers = <<>>
  /\ savedSdk = <<>>
  /\ stream = Null
  /\ recordingSaved = <<>>
  /\ ev = Event("none", Null)
  /\ outcomes = <<>>
  /\ call = NoCall

\* the same on a page that leaves the host divs' styles alone
ModalOpened == ModalMounted /\ style = HostDivStyle

\* a session starts with the modal just opened
Init == ModalOpened /\ inputs \in Scenarios

\* the user acts on the annotator once it shows the image, unless the run
\* lets user events precede the load
UserReady == inputs.lateLoad \/ imgLoads = {}

Next ==
  \/ handleTakeScreenshot
  \/ getDisplayStreamResolved(1)
  \/ captureResolved
  \/ \E cancelled \in BOOLEAN : captureRejected(cancelled)
  \/ clearMedia
  \/ \E x \in inputs.cropXs, y \in inputs.cropYs : onPointerDown(x, y)
  \/ \E x \in inputs.cropXs, y \in inputs.cropYs : onPointerMove(x, y)
  \/ \E name \in {"onPointerUp", "onPointerLeave"} : onPointerUp(name)
  \/ redoClick
  \/ handleCropConfirm
  \/ inputs.decodes /\ \E l \in cropLoads : cropImgOnload(l)
  \/ ~inputs.decodes /\ \E l \in cropLoads : cropImgOnerror(l)
  \/ cropCancelClick
  \/ escapeKey
  \/ annotateCancelClick
  \/ handleDone
  \/ UserReady /\ \E t \in inputs.tools : setTool(t)
  \/ UserReady /\ \E c \in inputs.colors : setColor(c)
  \/ UserReady /\ tool \in inputs.drawTools
       /\ \E pos \in inputs.downs : onMouseDown(pos)
  \/ UserReady /\ \E pos \in inputs.moves : onMouseMove(pos)
  \/ UserReady /\ \E name \in {"onMouseUp", "onMouseLeave"} : onMouseUp(name)
  \/ UserReady /\ \E s \in inputs.texts : setTextInput(s)
  \/ UserReady /\ commitText
  \/ UserReady /\ closeText
  \/ UserReady /\ undo
  \/ UserReady /\ clear
  \/ \E src \in imgLoads : annImgOnload(src)

Spec == Init /\ [][Next]_vars

\* the callbacks the browser runs by itself: promise settlements and image loads
Callbacks ==
  \/ getDisplayStreamResolved(1)
  \/ captureResolved
  \/ \E cancelled \in BOOLEAN : captureRejected(cancelled)
  \/ inputs.decodes /\ \E l \in cropLoads : cropImgOnload(l)
  \/ ~inputs.decodes /\ \E l \in cropLoads : cropImgOnerror(l)
  \/ \E src \in imgLoads : annImgOnload(src)

\* the browser eventually runs a pending callback; the user may stop acting
SpecFair == Init /\ [][Next]_vars /\ WF_vars(Callbacks)

\* a run over the form, with
\*   cropDowns, cropMoves  overlay positions of the one crop drag
\*   titles, descriptions  values typed into the two fields
\*   files                 names of the files picked for attachment
FormSession ==
  [name |-> "form", tools |-> {"rect"}, drawTools |-> {"rect"},
   colors |-> {"#ef4444"}, downs |-> {Pt(0, 0)}, moves |-> {Pt(5, 5)},
   texts |-> {}, cropXs |-> {0, 11}, cropYs |-> {0, 11}, lateLoad |-> FALSE,
   decodes |-> TRUE, cropDowns |-> {Pt(0, 0)}, cropMoves |-> {Pt(11, 11)},
   titles |-> {<<" ">>, <<"a">>}, descriptions |-> {<<"d">>},
   files |-> {"a.txt"}]

InitForm == ModalOpened /\ inputs = FormSession

\* the form's handlers and callbacks, with a screenshot session from the
\* Screenshot button over one crop drag to Done or Escape; the other crop
\* gestures and the drawing handlers of the annotator, which change the crop
\* selector and the canvas only, are left to Spec
NextForm ==
  \/ \E t \in inputs.titles : setTitle(t)
  \/ \E d \in inputs.descriptions : setDescription(d)
  \/ handleStartRecording
  \/ startRecordingResolved
  \/ \E cancelled \in BOOLEAN : startRecordingRejected(cancelled)
  \/ handleStopRecording
  \/ trackOnended
  \/ recordingOnDone
  \/ \E file \in inputs.files : handleFileChange(file)
  \/ \E file \in fileReads : fileReaderOnload(file)
  \/ handleSubmit
  \/ \E result \in {"ok", "notOk", "failed"} : submitSettled(result)
  \/ clearMedia
  \/ handleTakeScreenshot
  \/ getDisplayStreamResolved(1)
  \/ captureResolved
  \/ \E cancelled \in BOOLEAN : captureRejected(cancelled)
  \/ \E pos \in inputs.cropDowns : onPointerDown(pos.x, pos.y)
  \/ \E pos \in inputs.cropMoves : onPointerMove(pos.x, pos.y)
  \/ onPointerUp("onPointerUp")
  \/ handleCropConfirm
  \/ \E l \in cropLoads : cropImgOnload(l)
  \/ \E src \in imgLoads : annImgOnload(src)
  \/ escapeKey
  \/ handleDone

SpecForm == InitForm /\ [][NextForm]_vars

\* the modal component is mounted: an unmounted one handles no event and
\* drops the state updates of the callbacks still pending
Mounted == modalReactRoot # Null

\* the form with its ways to close the modal: the fields, submissions,
\* recordings, file reads and captures of SpecForm, a screenshotter that is
\* only opened and cancelled, and one close request per modal
NextClose ==
  \/ Mounted /\ \E t \in inputs.titles : setTitle(t)
  \/ Mounted /\ handleStartRecording
  \/ Mounted /\ startRecordingResolved
  \/ Mounted /\ \E cancelled \in BOOLEAN : startRecordingRejected(cancelled)
  \/ Mounted /\ handleStopRecording
  \/ Mounted /\ trackOnended
  \/ Mounted /\ recordingOnDone
  \/ Mounted /\ \E file \in inputs.files : handleFileChange(file)
  \/ Mounted /\ \E file \in fileReads : fileReaderOnload(file)
  \/ Mounted /\ handleSubmit
  \/ Mounted /\ handleSubmitByKey
  \/ Mounted /\ \E result \in {"ok", "notOk", "failed"} : submitSettled(result)
  \/ Mounted /\ clearMedia
  \/ Mounted /\ handleTakeScreenshot
  \/ Mounted /\ getDisplayStreamResolved(1)
  \/ Mounted /\ captureResolved
  \/ Mounted /\ \E cancelled \in BOOLEAN : captureRejected(cancelled)
  \/ Mounted /\ escapeKey
  \/ closeTimers = <<>> /\ escapeClose
  \/ closeTimers = <<>> /\ backdropClick
  \/ closeTimers = <<>> /\ footerCancelClick
  \/ closeTimers = <<>> /\ headerCloseClick
  \/ closeTimers = <<>> /\ successCloseClick
  \/ unmountModal

SpecClose == InitForm /\ [][NextClose]_vars

\* the inline visibilities the host page may have given the host divs
Visibilities == {"initial", "visible", "hidden"}
PageStyles ==
  {[HostDivStyle EXCEPT ![LauncherId] = a, ![ModalId] = b] :
     a \in Visibilities, b \in Visibilities}

\* the form's inputs on a page whose host divs have the styles st
CaptureSession(st) ==
  [f \in DOMAIN FormSession \cup {"pageStyle"} |->
     IF f = "pageStyle" THEN st ELSE FormSession[f]]

InitCapture ==
  /\ ModalMounted
  /\ \E st \in PageStyles : style = st /\ inputs = CaptureSession(st)

\* screenshots taken, cancelled and failed, interleaved with typing, with
\* recordings that fail to start and with sessions closed by Escape
NextCapture ==
  \/ handleTakeScreenshot
  \/ \E n \in 1..MaxTracks : getDisplayStreamResolved(n)
  \/ captureResolved
  \/ \E cancelled \in BOOLEAN : captureRejected(cancelled)
  \/ escapeKey
  \/ \E t \in inputs.titles : setTitle(t)
  \/ handleStartRecording
  \/ \E cancelled \in BOOLEAN : startRecordingRejected(cancelled)

SpecCapture == InitCapture /\ [][NextCapture]_vars

\* the configurations the host page may pass to init
SDKConfigs ==
  {SDKConfig(k, pr, u, pos) : k \in {"", "k1", "k2"}, pr \in {"", "p1"},
                              u \in {"", "u1"},
                              pos \in {"absent", "bottom-left"}}

\* the SDK as the script is loaded: nothing initialized, nothing mounted
InitSdk ==
  /\ FormInitial
  /\ state = InitialState
  /\ launcherReactRoot = Null
  /\ modalReactRoot = Null
  /\ body = EmptyBody
  /\ opened = 0
  /\ closeTimers = <<>>
  /\ style = HostDivStyle
  /\ savedSdk = <<>>
  /\ stream = Null
  /\ recordingSaved = <<>>
  /\ inputs = DrawShapes
  /\ ev = Event("none", Null)
  /\ outcomes = <<>>
  /\ call = NoCall

NextSdk ==
  \/ \E config \in SDKConfigs : init(config)
  \/ destroy
  \/ handleLauncherClick
  \/ escapeClose
  \/ headerCloseClick
  \/ unmountModal

SpecSdk == InitSdk /\ [][NextSdk]_vars

----------------------------------------------------------------------------
(* Pure functions applied to bounded inputs *)

Coords == 0..MaxCoord

CalcFrame ==
  UNCHANGED <<modalVars, shotVars, cropVars, annVars, inputs, sdkVars, captureVars,
              formVars, ev, outcomes>>

\* toRect on two corners, and on the same corners swapped
applyToRect ==
  /\ \E ax \in Coords, ay \in Coords, bx \in Coords, by \in Coords :
       call' = [fn |-> "toRect", ax |-> ax, ay |-> ay, bx |-> bx, by |-> by,
                res |-> toRect(ax, ay, bx, by),
                swapped |-> toRect(bx, by, ax, ay)]
  /\ CalcFrame

SpecToRect == Init /\ [][applyToRect]_vars

\* selections above the dead zone, and the selection (20,20)-(220,170)
CropRects ==
  [x : Coords, y : Coords, w : {11, 11 + MaxCoord}, h : {11, 11 + MaxCoord}]
    \cup {[x |-> 20, y |-> 20, w |-> 200, h |-> 150]}

Viewports == {[w |-> 1000, h |-> 800], [w |-> 22, h |-> 22]}
Natives == {[w |-> 2000, h |-> 1600], [w |-> 33, h |-> 44]}

\* the crop of a selection that lies inside the viewport
applyCropRegion ==
  /\ \E r \in CropRects, nat \in Natives, view \in Viewports :
       /\ r.x + r.w <= view.w
       /\ r.y + r.h <= view.h
       /\ call' = [fn |-> "cropRegion", rect |-> r, nat |-> nat, view |-> view,
                   res |-> cropRegion(r, nat, view)]
  /\ CalcFrame

SpecCropRegion == Init /\ [][applyCropRegion]_vars

Ann(t, pts, txt) == [tool |-> t, color |-> "#ef4444", points |-> pts, text |-> txt]

\* annotations with and without the data their tool needs
SampleAnns ==
  {Ann("rect", <<Pt(0, 0), Pt(5, 5)>>, <<>>),
   Ann("rect", <<Pt(0, 0)>>, <<>>),
   Ann("arrow", <<Pt(0, 0), Pt(5, 10)>>, <<>>),
   Ann("arrow", <<>>, <<>>),
   Ann("freehand", <<Pt(0, 0), Pt(0, 0), Pt(5, 5)>>, <<>>),
   Ann("freehand", <<Pt(5, 5)>>, <<>>),
   Ann("text", <<Pt(5, 5)>>, <<"a">>),
   Ann("text", <<Pt(5, 5)>>, <<>>),
   Ann("text", <<>>, <<"a">>)}

SampleLogs == UNION {[1..n -> SampleAnns] : n \in 0..MaxLog}

\* a surface as a previous frame left it, and a fresh one
SampleSurfaces ==
  {BlankCanvas,
   [img |-> FullScreenUrl, marks |-> <<Ann("rect", <<Pt(0, 0), Pt(5, 5)>>, <<>>)>>]}

\* redraw on a surface, and again on its own result, once per run
applyRedraw ==
  /\ call = NoCall
  /\ \E cv \in SampleSurfaces, anns \in SampleLogs, cur \in SampleAnns \cup {Null} :
       call' = [fn |-> "redraw", before |-> cv, img |-> FullScreenUrl,
                anns |-> anns, cur |-> cur,
                ops |-> redrawOps(FullScreenUrl, anns, cur),
                once |-> redraw(cv, FullScreenUrl, anns, cur),
                twice |-> redraw(redraw(cv, FullScreenUrl, anns, cur),
                                 FullScreenUrl, anns, cur)]
  /\ CalcFrame

SpecRedraw == Init /\ [][applyRedraw]_vars

\* a viewport of whole pixels, wider than high
MaskViewport == [w |-> MaxCoord + 1, h |-> MaxCoord]

\* no rectangle, and every rectangle onPointerMove can store: toRect of two
\* pointer positions on the overlay, which fills the viewport
MaskRects ==
  {Null} \cup {toRect(ax, ay, bx, by) :
                 ax \in 0..MaskViewport.w, ay \in 0..MaskViewport.h,
                 bx \in 0..MaskViewport.w, by \in 0..MaskViewport.h}

\* MaskLayer rendered for a rectangle, once per run
applyMaskLayer ==
  /\ call = NoCall
  /\ \E r \in MaskRects :
       call' = [fn |-> "MaskLayer", rect |-> r, vp |-> MaskViewport,
                strips |-> MaskLayer(r, MaskViewport)]
  /\ CalcFrame

SpecMask == Init /\ [][applyMaskLayer]_vars

----------------------------------------------------------------------------
(* Claims *)

UpNames == {"onMouseUp", "onMouseLeave"}
ShapeTools == {"rect", "arrow"}
Last(seq) == seq[Len(seq)]

\* C1: undo on an empty log leaves it empty; undo on a non-empty log removes
\* exactly the last committed annotation and keeps the remaining prefix
\* unchanged and in order, so N undos empty a log of N annotations.
C1_UndoRemovesLast ==
  [][ev'.name = "undo" =>
       IF annotations = <<>>
       THEN annotations' = <<>>
       ELSE /\ Len(annotations') = Len(annotations) - 1
            /\ \A i \in 1..Len(annotations') : annotations'[i] = annotations[i]]_vars

\* undo has just removed the second of two different annotations
C1_Witness ==
  /\ ev.name = "undo"
  /\ Len(annotations) = 1
  /\ annotations[1].points = <<Pt(10, 10), Pt(110, 60)>>
  /\ annotations[1].tool = "arrow"

\* C2: undo or clear during a drag changes only the committed log: the
\* in-progress annotation, the drawing flag and the rest of the annotator are
\* unchanged, and the pointer-up that follows commits the in-progress
\* annotation as the last entry of the log.
C2_UndoKeepsDrag ==
  [][/\ (ev'.name \in {"undo", "clear"} /\ drawing /\ current # Null) =>
          /\ current' = current
          /\ drawing' = drawing
          /\ <<tool', color', pendingText', textInput'>>
               = <<tool, color, pendingText, textInput>>
     /\ (ev.name \in {"undo", "clear"} /\ drawing /\ ev'.name \in UpNames) =>
          /\ annotations' = Append(annotations, current)
          /\ ~drawing'
          /\ current' = Null]_vars

\* undo has removed the second committed shape while a third is being drawn
C2_Witness ==
  /\ ev.name = "undo"
  /\ drawing
  /\ current # Null
  /\ current.points = <<Pt(10, 10), Pt(110, 60)>>
  /\ Len(annotations) = 1
  /\ canvas.marks = Append(annotations, current)

\* C3 as stated: a freehand stroke is the pointer-down position followed by
\* the pointer-move positions, with no extra or duplicated point, and the
\* release commits it.
C3_FreehandExactPoints ==
  [][/\ (ev'.name = "onMouseDown" /\ tool = "freehand") =>
          current'.points = <<ev'.pos>>
     /\ (ev'.name = "onMouseMove" /\ current.tool = "freehand") =>
          current'.points = Append(current.points, ev'.pos)
     /\ (ev'.name \in UpNames /\ current # Null /\ current.tool = "freehand") =>
          annotations' = Append(annotations, current)]_vars

\* C3 amended: a freehand stroke is the pointer-down position twice, followed
\* by every pointer-move position in order, and the release commits it.
C3_FreehandSeededTwice ==
  [][/\ (ev'.name = "onMouseDown" /\ tool = "freehand") =>
          current'.points = <<ev'.pos, ev'.pos>>
     /\ (ev'.name = "onMouseMove" /\ current.tool = "freehand") =>
          current'.points = Append(current.points, ev'.pos)
     /\ (ev'.name \in UpNames /\ current # Null /\ current.tool = "freehand") =>
          annotations' = Append(annotations, current)]_vars

\* a stroke from (0,0) through (5,5) and (5,10) has been committed
C3_Witness ==
  /\ ev.name \in UpNames
  /\ annotations # <<>>
  /\ Last(annotations).tool = "freehand"
  /\ Last(annotations).points = <<Pt(0, 0), Pt(0, 0), Pt(5, 5), Pt(5, 10)>>

\* C4: a rectangle or arrow drag from a to b appends exactly one annotation
\* with the tool and colour selected at pointer-down and points [a, b];
\* during the drag the in-progress annotation has 2 points and keeps a first.
C4_ShapeDrag ==
  [][/\ (ev'.name = "onMouseDown" /\ tool \in ShapeTools) =>
          current' = [tool |-> tool, color |-> color,
                      points |-> <<ev'.pos, ev'.pos>>, text |-> <<>>]
     /\ (drawing /\ current # Null /\ current.tool \in ShapeTools) =>
          /\ Len(current.points) = 2
          /\ ev'.name = "onMouseMove" =>
               current' = [current EXCEPT !.points = <<current.points[1], ev'.pos>>]
          /\ ev'.name \in UpNames =>
               /\ annotations' = Append(annotations, current)
               /\ current' = Null
          /\ (Annotating' /\ ev'.name \notin UpNames \cup {"onMouseMove", "onMouseDown"}) =>
               current' = current]_vars

\* an arrow drawn in blue while rect and red were selected by the release
C4_Witness ==
  /\ ev.name \in UpNames
  /\ annotations # <<>>
  /\ Last(annotations) = [tool |-> "arrow", color |-> "#3b82f6",
                          points |-> <<Pt(10, 10), Pt(110, 60)>>, text |-> <<>>]
  /\ tool = "rect"
  /\ color = "#ef4444"

\* t is s without its leading and trailing white space
IsTrimOf(t, s) ==
  /\ t # <<>>
  /\ t[1] # " "
  /\ t[Len(t)] # " "
  /\ \E lead \in 0..Len(s) :
       /\ lead + Len(t) <= Len(s)
       /\ SubSeq(s, lead + 1, lead + Len(t)) = t
       /\ \A k \in 1..Len(s) : (k <= lead \/ k > lead + Len(t)) => s[k] = " "

\* C5: committing text with a pending anchor appends exactly one annotation
\* {text, [anchor], trimmed input} when the trimmed input is non-empty and
\* nothing when the input is empty or white space; the anchor is cleared.
C5_CommitText ==
  [][(ev'.name = "commitText" /\ pendingText # Null) =>
       /\ pendingText' = Null
       /\ IF \E k \in 1..Len(textInput) : textInput[k] # " "
          THEN /\ Len(annotations') = Len(annotations) + 1
               /\ SubSeq(annotations', 1, Len(annotations)) = annotations
               /\ Last(annotations').tool = "text"
               /\ Last(annotations').points = <<pendingText>>
               /\ IsTrimOf(Last(annotations').text, textInput)
          ELSE annotations' = annotations]_vars

\* " a b " committed at (50,50) as "a b"
C5_Witness ==
  /\ ev.name = "commitText"
  /\ pendingText = Null
  /\ annotations # <<>>
  /\ Last(annotations).tool = "text"
  /\ Last(annotations).points = <<Pt(50, 50)>>
  /\ Last(annotations).text = <<"a", " ", "b">>

\* C6: on pointer-up or pointer-leave the crop selector is confirming exactly
\* if the selection is more than 10 wide and more than 10 high; a selection of
\* 10 or less on either axis is never confirming.
C6_DeadZone ==
  /\ [](confirmed => (rect # Null /\ rect.w > 10 /\ rect.h > 10))
  /\ [][ev'.name \in {"onPointerUp", "onPointerLeave"} =>
          /\ confirmed' <=> (rect # Null /\ rect.w > 10 /\ rect.h > 10)
          /\ rect' = rect
          /\ drag' = Null]_vars

\* a drag of 11 by 10 pixels was released and is not confirming
C6_Witness ==
  /\ ev.name = "onPointerUp"
  /\ ~confirmed
  /\ rect # Null
  /\ rect.w = 11
  /\ rect.h = 10

\* C7: the rectangle of two corners is {min x, min y, |dx|, |dy|}: width and
\* height are never negative and swapping the corners gives the same rectangle.
C7_ToRect ==
  call.fn = "toRect" =>
    /\ call.res.x \in {call.ax, call.bx}
    /\ call.res.x <= call.ax /\ call.res.x <= call.bx
    /\ call.res.y \in {call.ay, call.by}
    /\ call.res.y <= call.ay /\ call.res.y <= call.by
    /\ call.res.w >= 0 /\ call.res.w \in {call.bx - call.ax, call.ax - call.bx}
    /\ call.res.h >= 0 /\ call.res.h \in {call.by - call.ay, call.ay - call.by}
    /\ call.res = call.swapped

\* a drag up and to the left
C7_Witness ==
  /\ call.fn = "toRect"
  /\ <<call.ax, call.ay, call.bx, call.by>> = <<3, 2, 1, 0>>
  /\ call.res = [x |-> 1, y |-> 0, w |-> 2, h |-> 2]

\* the crop is copied from the native region at (x*Nw/Vw, y*Nh/Vh) that
\* extends over (w*Nw/Vw, h*Nh/Vh), each axis scaled by its own ratio
CropSource(c) ==
  /\ c.res.sx.num * c.view.w = c.rect.x * c.nat.w * c.res.sx.den
  /\ c.res.sy.num * c.view.h = c.rect.y * c.nat.h * c.res.sy.den
  /\ c.res.sw.num * c.view.w = c.rect.w * c.nat.w * c.res.sw.den
  /\ c.res.sh.num * c.view.h = c.rect.h * c.nat.h * c.res.sh.den

C9_PhaseOneWay ==
  /\ [](/\ Annotating =>
             (cropRect # Null /\ cropRect.w > 10 /\ cropRect.h > 10)
        /\ \A l \in cropLoads : l.rect.w > 10 /\ l.rect.h > 10)
  /\ [][/\ ev'.name = "captureResolved" => phase' = "crop"
        /\ ev'.name = "handleCropConfirm" =>
             (confirmed /\ cropLoads' = cropLoads \cup {[rect |-> rect, live |-> TRUE]})
        /\ (phase = "crop" /\ phase' = "annotate") =>
             /\ ev'.name = "cropImgOnload"
             /\ \E l \in cropLoads : l.live /\ cropRect' = l.rect
        /\ (Annotating /\ screenshotterOpen') => phase' = "annotate"]_vars

\* the annotate phase, with a drag in progress after a text was committed
C9_Witness ==
  /\ Annotating
  /\ cropRect = [x |-> 0, y |-> 0, w |-> 11, h |-> 11]
  /\ drawing
  /\ Len(annotations) = 1
  /\ inputs.name = "session"

CancelNames == {"escapeKey", "cropCancelClick", "annotateCancelClick"}

\* C10: cancellation is accepted in every state of a screenshot session:
\* Escape, or a Cancel button that is shown, invokes onCancel, never onDone,
\* and leaves the form's media type and media data as they were.
C10_CancelAnywhere ==
  /\ [](/\ screenshotterOpen => ENABLED escapeKey
        /\ (Cropping /\ confirmed /\ hasRect) => ENABLED cropCancelClick
        /\ Annotating => ENABLED annotateCancelClick)
  /\ [][/\ ev'.name \in CancelNames =>
             /\ screenshotterOpen
             /\ ~screenshotterOpen'
             /\ outcomes' = Append(outcomes, "onCancel")
             /\ <<mediaType', mediaDataUrl'>> = <<mediaType, mediaDataUrl>>
        /\ (screenshotterOpen /\ screenshotterOpen') =>
             <<mediaType', mediaDataUrl'>> = <<mediaType, mediaDataUrl>>]_vars

\* a session cancelled by Escape, the form still without media
C10_Witness ==
  /\ ev.name = "escapeKey"
  /\ outcomes = <<"onCancel">>
  /\ ~screenshotterOpen
  /\ mediaType = "none"
  /\ mediaDataUrl = EmptyUrl

OutcomeNames == {"handleDone"} \cup CancelNames

\* C11: a screenshot session surfaces at most one outcome, one onDone or one
\* onCancel and never both; nothing is surfaced after the first outcome, and
\* a crop-image load that completes late surfaces nothing.
C11_SingleOutcome ==
  /\ [](Len(outcomes) <= 1)
  /\ [][/\ outcomes' # outcomes =>
             \/ ev'.name = "captureResolved" /\ outcomes' = <<>>
             \/ /\ ev'.name \in OutcomeNames
                /\ outcomes = <<>>
                /\ Len(outcomes') = 1
                /\ screenshotterOpen
                /\ ~screenshotterOpen'
        /\ ev'.name = "cropImgOnload" =>
             /\ outcomes' = outcomes
             /\ <<mediaType', mediaDataUrl'>> = <<mediaType, mediaDataUrl>>]_vars

\* a crop-image load has completed after the session was cancelled
C11_Witness ==
  /\ ev.name = "cropImgOnload"
  /\ ~screenshotterOpen
  /\ outcomes = <<"onCancel">>
  /\ cropLoads = {}

\* C12: once the base image has loaded, the drawing surface holds the base
\* image, every committed annotation and the in-progress one, however the
\* load callback interleaves with pointer, text-commit, undo and clear
\* events; so the artifact of Done shows the whole committed log.
C12_SurfaceComplete ==
  (Annotating /\ imgRef # Null) =>
    canvas = paint(BlankCanvas, redrawOps(imgRef, annotations, current))

\* C13: when Done is pressed before the base image has loaded, the artifact
\* surfaced to the caller is the unannotated cropped bitmap, never a blank
\* surface.
C13_DoneBeforeLoad ==
  [][(ev'.name = "handleDone" /\ imgRef = Null) =>
       /\ mediaDataUrl' = croppedDataUrl
       /\ mediaDataUrl' # toDataURL(BlankCanvas)]_vars

\* C14: when the captured bitmap fails to decode at crop confirmation, the
\* session ends by itself like a cancellation: onCancel eventually reaches
\* the caller, annotate is never entered and the session does not stay in
\* the crop phase forever.
C14_DecodeFailureCancels ==
  /\ [](~inputs.decodes => ~Annotating)
  /\ [](ev.name = "cropImgOnerror" => <>(outcomes = <<"onCancel">>))

\* the annotation has the data its tool needs
Drawable(a) ==
  CASE a.tool \in {"rect", "arrow", "freehand"} -> Len(a.points) >= 2
    [] a.tool = "text" -> Len(a.points) >= 1 /\ a.text # <<>>

\* the annotations of a render call, the in-progress one last
Submitted(c) == c.anns \o (IF c.cur = Null THEN <<>> ELSE <<c.cur>>)

\* C15: a render clears the surface, draws the base bitmap first, then the
\* committed annotations in log order, then the in-progress annotation last;
\* nothing is drawn before the base and nothing committed after the
\* in-progress one.
C15_RenderOrder ==
  call.fn = "redraw" =>
    LET drawn == SelectSeq(Submitted(call), Drawable) IN
      /\ Len(call.ops) = 2 + Len(drawn)
      /\ call.ops[1] = ClearRect
      /\ call.ops[2] = DrawImage(call.img)
      /\ \A i \in 1..Len(drawn) : call.ops[2 + i] = Stroke(drawn[i])
      /\ call.once = [img |-> call.img, marks |-> drawn]

\* two committed annotations and one in progress, drawn in that order
C15_Witness ==
  /\ call.fn = "redraw"
  /\ call.anns = <<Ann("arrow", <<Pt(0, 0), Pt(5, 10)>>, <<>>),
                   Ann("text", <<Pt(5, 5)>>, <<"a">>)>>
  /\ call.cur = Ann("rect", <<Pt(0, 0), Pt(5, 5)>>, <<>>)
  /\ call.once.marks = <<call.anns[1], call.anns[2], call.cur>>

\* C16: rendering is idempotent and deterministic: a second render with the
\* same base bitmap, log and in-progress annotation leaves the surface as
\* the first did, and nothing of the previous frame remains.
C16_RenderIdempotent ==
  call.fn = "redraw" =>
    /\ call.twice = call.once
    /\ call.once = paint(BlankCanvas, call.ops)

\* a translucent rectangle rendered twice over a used surface
C16_Witness ==
  /\ call.fn = "redraw"
  /\ call.before.marks # <<>>
  /\ call.anns = <<Ann("rect", <<Pt(0, 0), Pt(5, 5)>>, <<>>)>>
  /\ call.cur = Null
  /\ call.twice.marks = call.anns

\* C17: an annotation with insufficient data (a rectangle, arrow or freehand
\* stroke with fewer than 2 points, a text with no point or empty text)
\* leaves no mark and stops nothing: the annotations after it are drawn.
C17_MalformedSkipped ==
  call.fn = "redraw" =>
    LET all == Submitted(call) IN
      /\ \A i \in 1..Len(all) :
           Drawable(all[i]) <=>
             \E k \in 1..Len(call.once.marks) : call.once.marks[k] = all[i]
      /\ Len(call.once.marks) = Cardinality({i \in 1..Len(all) : Drawable(all[i])})

\* a one-point rectangle is skipped and the arrow after it is drawn
C17_Witness ==
  /\ call.fn = "redraw"
  /\ call.anns = <<Ann("rect", <<Pt(0, 0)>>, <<>>),
                   Ann("arrow", <<Pt(0, 0), Pt(5, 10)>>, <<>>)>>
  /\ call.cur = Ann("text", <<Pt(5, 5)>>, <<>>)
  /\ call.once.marks = <<call.anns[2]>>

\* C18: selecting a tool or a colour, in any annotator state, changes no
\* committed annotation and not the in-progress one, which keeps the tool
\* and colour of its pointer-down until it is committed; pointer-moves treat
\* it by its own tool, not by the selected one.
C18_ToolColorFrame ==
  [][/\ ev'.name \in {"setTool", "setColor"} =>
          /\ annotations' = annotations
          /\ current' = current
          /\ drawing' = drawing
     /\ (ev'.name = "onMouseMove" /\ current # Null) =>
          /\ current'.tool = current.tool
          /\ current'.color = current.color
          /\ current'.points =
               IF current.tool = "freehand"
               THEN Append(current.points, ev'.pos)
               ELSE <<current.points[1], ev'.pos>>
     /\ (ev'.name \in UpNames /\ drawing /\ current # Null) =>
          Last(annotations') = current]_vars

\* a freehand stroke that grew by a move made while rect was selected
C18_Witness ==
  /\ ev.name = "onMouseMove"
  /\ current # Null
  /\ current.tool = "freehand"
  /\ tool = "rect"
  /\ current.points = <<Pt(0, 0), Pt(0, 0), Pt(5, 5), Pt(5, 10)>>

\* C19: a pointer-leave during a drag does what a pointer-up does: the
\* in-progress annotation goes to the end of the log and the annotator is
\* idle with no in-progress annotation, so the annotator cannot stay in
\* drawing with the pointer outside; a pointer-up or pointer-leave while
\* idle appends nothing.
C19_LeaveCommits ==
  /\ [](drawing <=> current # Null)
  /\ []((Annotating /\ drawing /\ Len(annotations) < MaxLog) =>
          ENABLED onMouseUp("onMouseLeave"))
  /\ [][ev'.name \in UpNames =>
          /\ annotations' = IF drawing THEN Append(annotations, current)
                                       ELSE annotations
          /\ ~drawing'
          /\ current' = Null
          /\ <<tool', color', pendingText', textInput'>>
               = <<tool, color, pendingText, textInput>>]_vars

\* the pointer left the canvas and the dragged arrow is in the log
C19_Witness ==
  /\ ev.name = "onMouseLeave"
  /\ ~drawing
  /\ current = Null
  /\ Len(annotations) = 2
  /\ annotations[2].tool = "arrow"
  /\ annotations[2].points = <<Pt(10, 10), Pt(110, 60)>>
  /\ canvas.marks = annotations

\* C20: an init call made while the SDK is initialized changes nothing (the
\* stored configuration, the state's handles, both React roots and the host
\* divs in the page stay as they were), warns and does not throw, whatever
\* configuration it is given; a stored configuration changes only by destroy,
\* there is never a second launcher, and the first init after a destroy, with
\* a valid configuration, stores that configuration and mounts one launcher
C20_InitOnce ==
  [][/\ (call'.fn = "init" /\ state.initialized)
          => sdkVars' = sdkVars /\ call'.result = "warned"
     /\ (state.initialized /\ state'.config # state.config)
          => call'.fn = "destroy"
     /\ body'.launcher <= 1
     /\ (call.fn = "destroy" /\ call'.fn = "init"
           /\ validateConfig(call'.config))
          => /\ state'.initialized
             /\ state'.config = resolvedConfig(call'.config)
             /\ body'.launcher = 1
             /\ call'.result = "returned"]_vars

\* init was called with another valid configuration while the SDK was
\* initialized: the call warned, the first configuration is still stored
C20_Witness ==
  /\ call.fn = "init"
  /\ call.result = "warned"
  /\ validateConfig(call.config)
  /\ state.initialized
  /\ state.config # resolvedConfig(call.config)
  /\ body.launcher = 1

\* C21: an init call made on the uninitialized SDK with a configuration that
\* lacks apiKey, projectId or apiUrl throws and changes nothing: the SDK stays
\* uninitialized, no configuration is stored, no launcher root or launcher
\* div exists; the next init with a valid configuration returns normally,
\* stores the configuration and mounts the launcher
C21_InvalidConfigThrows ==
  [][/\ (call'.fn = "init" /\ ~state.initialized
           /\ ~validateConfig(call'.config))
          => /\ call'.result = "threw"
             /\ sdkVars' = sdkVars
             /\ ~state'.initialized
             /\ state'.config = Null
             /\ launcherReactRoot' = Null
             /\ body'.launcher = 0
     /\ (call.fn = "init" /\ call.result = "threw" /\ call'.fn = "init"
           /\ validateConfig(call'.config))
          => /\ call'.result = "returned"
             /\ state'.initialized
             /\ state'.config = resolvedConfig(call'.config)
             /\ launcherReactRoot' # Null
             /\ body'.launcher = 1]_vars

\* init has just thrown on a configuration whose only fault is the missing
\* apiUrl, and the SDK is uninitialized with nothing mounted
C21_Witness ==
  /\ call.fn = "init"
  /\ call.result = "threw"
  /\ call.config.apiKey # ""
  /\ call.config.projectId # ""
  /\ call.config.apiUrl = ""
  /\ state = InitialState
  /\ body = EmptyBody

\* C22: every destroy call, with the launcher alone or with the modal open or
\* on the uninitialized SDK, ends in the initial state: initialized false,
\* configuration null, both stored host divs and both React roots null, no
\* host div left in the page; the init that follows with a valid configuration
\* mounts exactly one launcher and no modal
C22_DestroyResets ==
  [][/\ call'.fn = "destroy"
          => /\ state' = InitialState
             /\ launcherReactRoot' = Null
             /\ modalReactRoot' = Null
             /\ body' = EmptyBody
     /\ (call.fn = "destroy" /\ call'.fn = "init"
           /\ validateConfig(call'.config))
          => /\ body' = [launcher |-> 1, modal |-> 0]
             /\ launcherReactRoot' # Null
             /\ modalReactRoot' = Null]_vars

\* destroy was called with the launcher and the modal mounted
C22_Witness ==
  /\ call.fn = "destroy"
  /\ call.before = [launcher |-> 1, modal |-> 1]
  /\ state = InitialState
  /\ body = EmptyBody

\* C24: a pointer-up (or pointer-leave) that ends a drag whose rectangle is not
\* more than 10 pixels on both axes leaves the crop selector idle with no
\* rectangle: no drag, not confirming, the stored rectangle absent and the
\* mask one div over the whole viewport
C24_SmallDragClears ==
  [][(/\ ev'.name \in {"onPointerUp", "onPointerLeave"}
      /\ drag # Null
      /\ ~(rect # Null /\ rect.w > 10 /\ rect.h > 10))
       => /\ drag' = Null
          /\ ~confirmed'
          /\ rect' = Null
          /\ MaskLayer(rect', Viewport)
               = <<Strip(0, 0, Viewport.w, Viewport.h)>>]_vars

\* C25: whenever the crop selector is confirming, a rectangle more than 10
\* wide and more than 10 high is stored and no drag is active; every
\* pointer-down on the overlay, from confirming too, starts a drag with no
\* rectangle and not confirming; Redo, offered only while confirming, ends not
\* confirming with no rectangle and no drag
C25_Confirming ==
  /\ [](confirmed => (rect # Null /\ rect.w > 10 /\ rect.h > 10 /\ drag = Null))
  /\ [][/\ ev'.name = "onPointerDown"
             => (~confirmed' /\ rect' = Null /\ drag' # Null)
        /\ ev'.name = "redoClick"
             => (confirmed /\ ~confirmed' /\ rect' = Null /\ drag' = Null)]_vars

\* Redo was just pressed on a confirmed selection: the selector is idle again
C25_Witness ==
  /\ Cropping
  /\ ev.name = "redoClick"
  /\ ~confirmed
  /\ rect = Null
  /\ drag = Null

\* the unit pixels a div covers
Pixels(st) ==
  {<<i, j>> : i \in st.left..(st.left + st.width - 1),
              j \in st.top..(st.top + st.height - 1)}

\* C26: the divs of the mask are pairwise disjoint, none overlaps the
\* selection, and mask and selection together cover the viewport exactly; a
\* selection with an area is surrounded by four strips (top over the full
\* width above it, bottom over the full width below it, left and right beside
\* it), and with no rectangle the mask is one div over the whole viewport
C26_MaskPartition ==
  call.fn = "MaskLayer" =>
    LET st == call.strips
        sel == IF call.rect = Null THEN {}
               ELSE Pixels(Strip(call.rect.x, call.rect.y, call.rect.w,
                                 call.rect.h))
        whole == Pixels(Strip(0, 0, call.vp.w, call.vp.h))
    IN /\ \A a \in DOMAIN st, b \in DOMAIN st :
            a # b => Pixels(st[a]) \cap Pixels(st[b]) = {}
       /\ \A a \in DOMAIN st : Pixels(st[a]) \cap sel = {}
       /\ UNION {Pixels(st[a]) : a \in DOMAIN st} \cup sel = whole
       /\ call.rect = Null => st = <<Strip(0, 0, call.vp.w, call.vp.h)>>
       /\ sel # {} =>
            /\ Len(st) = 4
            /\ Pixels(st[1]) = {c \in whole : c[2] < call.rect.y}
            /\ Pixels(st[2]) = {c \in whole : c[2] >= call.rect.y + call.rect.h}
            /\ Pixels(st[3]) = {c \in whole \ (Pixels(st[1]) \cup Pixels(st[2])) :
                                 c[1] < call.rect.x}
            /\ Pixels(st[4]) = {c \in whole \ (Pixels(st[1]) \cup Pixels(st[2])) :
                                 c[1] >= call.rect.x + call.rect.w}

\* a selection strictly inside the viewport: all four strips have an area
C26_Witness ==
  /\ call.fn = "MaskLayer"
  /\ call.rect = [x |-> 1, y |-> 1, w |-> 2, h |-> 1]
  /\ Len(call.strips) = 4
  /\ \A a \in 1..4 : Pixels(call.strips[a]) # {}

\* an annotation that has what its tool needs: two points for a rectangle or
\* an arrow, two or more for a freehand stroke, and no text on any of these;
\* one point and a non-empty text without outer white space for a text
WellFormed(a) ==
  CASE a.tool \in ShapeTools -> Len(a.points) = 2 /\ a.text = <<>>
    [] a.tool = "freehand" -> Len(a.points) >= 2 /\ a.text = <<>>
    [] a.tool = "text" ->
         Len(a.points) = 1 /\ a.text # <<>> /\ trim(a.text) = a.text
    [] OTHER -> FALSE

\* C27: in every reachable state every annotation of the committed log is
\* well formed for its tool
C27_LogWellFormed ==
  \A i \in DOMAIN annotations : WellFormed(annotations[i])

\* a log holding a committed text and, after it, a committed rectangle
C27_Witness ==
  /\ Len(annotations) = 2
  /\ annotations[1].tool = "text"
  /\ annotations[1].text = <<"a">>
  /\ annotations[2].tool = "rect"
  /\ Len(annotations[2].points) = 2

\* C28: the annotation in progress exists exactly while the annotator is
\* drawing; pointer-down and pointer-move leave the committed log as it is;
\* while the annotator stays mounted the log changes only by a pointer-up or
\* pointer-leave that ends a drag (the annotation in progress is appended), a
\* text commit (one text annotation is appended), undo (the last one is
\* removed) or clear (the log is emptied)
C28_LogChanges ==
  /\ [](drawing <=> current # Null)
  /\ [][/\ ev'.name \in {"onMouseDown", "onMouseMove"}
             => annotations' = annotations
        /\ (Annotating /\ Annotating' /\ annotations' # annotations) =>
             \/ /\ ev'.name \in UpNames
                /\ drawing
                /\ annotations' = Append(annotations, current)
                /\ current' = Null
             \/ /\ ev'.name = "commitText"
                /\ Len(annotations') = Len(annotations) + 1
                /\ sliceLast(annotations') = annotations
                /\ Last(annotations').tool = "text"
             \/ /\ ev'.name = "undo"
                /\ annotations' = sliceLast(annotations)
             \/ /\ ev'.name = "clear"
                /\ annotations' = <<>>]_vars

\* a drag is under way over a log of one annotation, not yet part of it
C28_Witness ==
  /\ Annotating
  /\ ev.name = "onMouseMove"
  /\ drawing
  /\ current # Null
  /\ Len(annotations) = 1
  /\ annotations[1] # current

\* C29: the annotator is in exactly one of idle, drawing and text-pending: no
\* reachable state has a drag in progress while a text anchor is pending; a
\* pointer-down with the text tool stores the anchor and creates no
\* annotation in progress
C29_ExclusiveStates ==
  /\ [](~(drawing /\ pendingText # Null))
  /\ [][(ev'.name = "onMouseDown" /\ tool = "text")
          => /\ pendingText' = ev'.pos
             /\ current' = current
             /\ drawing' = drawing]_vars

\* C30: Escape pressed while a text anchor is pending discards the anchor and
\* does nothing else: nothing is appended, the committed log is unchanged, the
\* annotate phase stays active and no outcome is reported
C30_EscapeOnlyClosesText ==
  [][(ev'.name = "escapeKey" /\ Annotating /\ pendingText # Null)
       => /\ pendingText' = Null
          /\ annotations' = annotations
          /\ Annotating'
          /\ outcomes' = outcomes]_vars

MediaFields == {"screen_shot", "recording", "attachment"}

\* C23: the payload of every submission carries at most one of the fields
\* screen_shot, recording and attachment, and attachment_name only together
\* with attachment, whatever screenshots, recordings, file reads and removals
\* came before; the field it carries is the one of the media type shown in the
\* form when Submit was pressed, with the media data shown
C23_OneMediaField ==
  /\ [](payload # Null =>
          /\ Cardinality(DOMAIN payload \cap MediaFields) <= 1
          /\ "attachment_name" \in DOMAIN payload
               => "attachment" \in DOMAIN payload)
  /\ [][payload' # payload =>
          /\ ev'.name = "handleSubmit"
          /\ DOMAIN payload' \cap MediaFields =
               CASE mediaType = "screenshot" -> {"screen_shot"}
                 [] mediaType = "recording" -> {"recording"}
                 [] mediaType = "attachment" -> {"attachment"}
                 [] mediaType = "none" -> {}
          /\ \A k \in DOMAIN payload' \cap MediaFields :
               payload'[k] = mediaDataUrl]_vars

\* a recording was submitted while the name of a file read earlier is still
\* stored: the payload carries the recording and no attachment name
C23_Witness ==
  /\ payload # Null
  /\ DOMAIN payload \cap MediaFields = {"recording"}
  /\ "attachment_name" \notin DOMAIN payload
  /\ attachmentName = "a.txt"
  /\ ev.name = "handleSubmit"

\* C31: at most one feedback modal is mounted at any time: the page holds 0
\* or 1 modal host divs after every step, and a launcher click made while a
\* modal root is stored changes nothing of the SDK.
C31_AtMostOneModal ==
  [][/\ body'.modal \in {0, 1}
     /\ (call'.fn = "handleLauncherClick" /\ state.modalRoot # Null)
          => UNCHANGED sdkVars]_vars

\* a launcher click was made while a modal was mounted, and one is mounted
C31_Witness ==
  /\ call.fn = "handleLauncherClick"
  /\ call.before.modal = 1
  /\ body.modal = 1
  /\ state.modalRoot # Null

\* C32: a modal is unmounted only by destroy or by a close timer that the
\* same modal scheduled: a timer of an earlier modal never unmounts a modal
\* opened later.
C32_OwnCloseOnly ==
  [][body'.modal < body.modal
       => \/ call'.fn = "destroy"
          \/ call'.fn = "unmountModal" /\ call'.timer.modal = opened]_vars

\* C33: when captureFullScreen has finished, by returning an image, by a
\* denied permission or by a failure, every SDK element has the visibility
\* it had before the call ("hidden" while a startRecording that began
\* afterwards holds it hidden) and every track of an obtained stream is ended.
C33_CaptureCleansUp ==
  ~capturePending =>
    /\ \A id \in DOMAIN style :
         getElementById(id) =>
           (style[id] = IF recorder = "starting" THEN "hidden"
                        ELSE inputs.pageStyle[id])
    /\ (stream # Null) =>
         (\A i \in DOMAIN stream.tracks : stream.tracks[i] = "ended")

\* a capture that had obtained a two-track stream was rejected on a page
\* that had made the modal's host div "visible"
C33_Witness ==
  /\ ev.name = "captureRejected"
  /\ stream # Null
  /\ Len(stream.tracks) = MaxTracks
  /\ style[ModalId] = "visible"
  /\ inputs.pageStyle[ModalId] = "visible"

\* C34: a capture that ends because permission was denied leaves the modal
\* idle, showing no error message, with the screenshotter closed; a capture
\* that ends with any other failure leaves it in the error state showing
\* "Screenshot capture failed.".
C34_CancelIsNotAnError ==
  [][(capturePending /\ ev'.name = "captureRejected") =>
       IF ev'.error = "CANCELLED"
       THEN /\ modalState' = "idle"
            /\ errorShown' = ""
            /\ ~screenshotterOpen'
       ELSE /\ modalState' = "error"
            /\ errorShown' = "Screenshot capture failed."]_vars

\* a capture was denied after an earlier one had failed: the modal is idle
\* and the earlier message is stored but not shown
C34_Witness ==
  /\ ev.name = "captureRejected"
  /\ ev.error = "CANCELLED"
  /\ modalState = "idle"
  /\ errorMessage = "Screenshot capture failed."
  /\ errorShown = ""

\* C35: the modal enters the success state only by a submission that settled
\* with an ok response; a submission that settled with a non-ok response or
\* a failed request leaves the modal in the error state showing a non-empty
\* message; a submit with an empty or all-whitespace title sends nothing and
\* leaves the modal state as it was.
C35_SubmitOutcomes ==
  [][/\ (modalState' = "success" /\ modalState # "success")
          => (ev'.name = "submitSettled" /\ ev'.result = "ok")
     /\ (ev'.name = "submitSettled" /\ ev'.result # "ok")
          => (modalState' = "error" /\ errorShown' # "")
     /\ (ev'.name = "handleSubmit" /\ trim(title) = <<>>)
          => /\ modalState' = modalState
             /\ inFlight' = inFlight
             /\ payload' = payload]_vars

\* submit was pressed with a title of one space: nothing was ever sent
C35_Witness ==
  /\ ev.name = "handleSubmit"
  /\ title # <<>>
  /\ trim(title) = <<>>
  /\ payload = Null
  /\ inFlight = 0

\* C36: while a submission is in flight the modal cannot be closed: a close
\* timer scheduled by a user action taken in the submitting state never
\* invokes onClose before the submission has completed.
C36_NoCloseWhileSubmitting ==
  [][(ev'.name = "unmountModal" /\ Len(closeTimers') < Len(closeTimers)
        /\ Head(closeTimers).state = "submitting")
       => inFlight = 0]_vars

\* C37: Escape pressed while the screenshotter is open cancels the
\* screenshot session and nothing else: the screenshotter closes, no close
\* of the modal is scheduled, the modal stays mounted, and the title, the
\* description and the attached media are what they were.
C37_EscapeCancelsSessionOnly ==
  [][ev'.name = "escapeKey" =>
       /\ ~screenshotterOpen'
       /\ closeTimers' = closeTimers
       /\ modalReactRoot' = modalReactRoot
       /\ title' = title
       /\ description' = description
       /\ <<mediaType, mediaDataUrl, attachmentName>>' =
            <<mediaType, mediaDataUrl, attachmentName>>]_vars

\* Escape closed a screenshotter that was open over a titled form to which
\* a file read had attached a file: the modal is mounted with no close
\* scheduled and the attachment is still there
C37_Witness ==
  /\ ev.name = "escapeKey"
  /\ title # <<>>
  /\ mediaType = "attachment"
  /\ Mounted
  /\ closeTimers = <<>>
  /\ ~screenshotterOpen

\* C38: the state submitting is left only by the completion of the
\* submission, to success or to error, and the state success is never left
\* while the modal is mounted: no completion of a capture, a recording or a
\* file read moves the modal out of either.
C38_SubmittingAndSuccessAreStable ==
  [][/\ (modalState = "submitting" /\ modalState' # "submitting")
          => (ev'.name = "submitSettled" /\ modalState' \in {"success", "error"})
     /\ (modalState = "success") => (modalState' = "success")]_vars

====
